---- MODULE Spec2Model ----
(***************************************************************************)
(* Model of the MP3 segment concatenation pipeline of podcast-gen          *)
(* (src/src/audio/dataTransformer.ts, class AudioDataTransformer):         *)
(* the frame codec, the per-file Tag Stripper transform, the               *)
(* compatibility validator and the concatenate orchestrator.               *)
(*                                                                         *)
(* Byte buffers are kept run-length encoded: a buffer is a sequence of     *)
(* runs <<b, n>> (n >= 1 copies of byte b) in which no two adjacent runs   *)
(* carry the same byte, so that equal byte strings are equal values; a     *)
(* run is stored with the offset at which it ends.                         *)
(* This keeps the program's own sizes (128-byte ID3v1 block, 96..1441 byte *)
(* frames, 1 MiB / 10 MiB / 50 MiB limits) at their source values.         *)
(***************************************************************************)
EXTENDS Integers, Sequences, FiniteSets, TLC

----------------------------------------------------------------------------
(* Program constants (dataTransformer.ts:7-10, 278-281, 153, 203)          *)

MAX_BUFFER_SIZE == 50 * 1024 * 1024
MAX_ID3V2_TAG_SIZE == 10 * 1024 * 1024
PROCESSING_CHUNK_SIZE == 1024 * 1024
ID3v2TagLength == 10
ID3v1TagLength == 128
ID3v2 == <<73, 68, 51>>
ID3v1 == <<84, 65, 71>>
ValidationPrefix == 1024
BitrateThreshold == 64

bitrateTable == <<0, 32, 40, 48, 56, 64, 80, 96, 112, 128, 160, 192, 224, 256, 320, 0>>
sampleRateTable == <<44100, 48000, 32000, 0>>

----------------------------------------------------------------------------
(* Buffers (Node Buffer), run-length encoded: the k-th run <<b, e>> holds *)
(* byte b at the indices from the end of run k-1 up to e-1                 *)

\* Op(v) with v evaluated once (a local `const x = v`)
Let(v, Op(_)) == CHOOSE y \in {Op(x) : x \in {v}} : TRUE

BLen(buf) == IF buf = << >> THEN 0 ELSE buf[Len(buf)][2]

\* a buffer of n copies of byte b
Run(b, n) == IF n > 0 THEN << <<b, n>> >> ELSE << >>

\* the run that holds index i, 0 <= i < BLen(buf)
RunIndex(buf, i) ==
  CHOOSE k \in 1 .. Len(buf) : i < buf[k][2] /\ (k = 1 \/ buf[k - 1][2] <= i)

\* buffer[i]; -1 stands for JavaScript's undefined (index out of range)
At(buf, i) == IF i < 0 \/ i >= BLen(buf) THEN -1 ELSE buf[RunIndex(buf, i)][1]

\* first index after the run that holds index i
RunEnd(buf, i) == IF i < 0 \/ i >= BLen(buf) THEN i + 1 ELSE buf[RunIndex(buf, i)][2]

Shift(buf, d) == [k \in 1 .. Len(buf) |-> <<buf[k][1], buf[k][2] + d>>]

\* Buffer.concat([a, b])
Cat(a, b) ==
  IF a = << >> THEN b
  ELSE IF b = << >> THEN a
  ELSE IF a[Len(a)][1] = b[1][1]
       THEN SubSeq(a, 1, Len(a) - 1) \o Shift(b, BLen(a))
       ELSE a \o Shift(b, BLen(a))

\* the first k bytes
TakeB(buf, k) ==
  IF k <= 0 THEN << >>
  ELSE IF k >= BLen(buf) THEN buf
  ELSE LET r == RunIndex(buf, k - 1)
       IN [j \in 1 .. r |-> IF j = r THEN <<buf[j][1], k>> ELSE buf[j]]

\* all but the first k bytes
DropB(buf, k) ==
  IF k <= 0 THEN buf
  ELSE IF k >= BLen(buf) THEN << >>
  ELSE LET r == RunIndex(buf, k)
       IN [j \in 1 .. (Len(buf) - r + 1) |->
             <<buf[j + r - 1][1], buf[j + r - 1][2] - k>>]

\* buffer.subarray(start, end) for 0 <= start, 0 <= end (both clamped to the length)
subarray(buf, start, end) == TakeB(DropB(buf, start), end - start)

\* Buffer.from([...]) of a plain byte sequence
RECURSIVE FromBytes(_)
FromBytes(s) == IF s = << >> THEN << >> ELSE Cat(Run(s[1], 1), FromBytes(Tail(s)))

----------------------------------------------------------------------------
(* Frame codec                                                             *)

\* findMp3FrameSync(buffer, startOffset): first i >= startOffset, i < length - 1,
\* with buffer[i] = 0xFF and (buffer[i+1] & 0xE0) = 0xE0; -1 when there is none.
\* The loop visits i, i+1, ...; an index inside a run of a byte other than 0xFF
\* cannot match, so the scan resumes at the end of that run.
RECURSIVE findMp3FrameSync(_, _)
findMp3FrameSync(buffer, startOffset) ==
  IF ~(startOffset < BLen(buffer) - 1) THEN -1
  ELSE IF At(buffer, startOffset) = 255 /\ At(buffer, startOffset + 1) \div 32 = 7
       THEN startOffset
  ELSE IF At(buffer, startOffset) = 255
       THEN findMp3FrameSync(buffer, startOffset + 1)
  ELSE findMp3FrameSync(buffer, RunEnd(buffer, startOffset))

\* The low 24 bits of buffer.readUInt32BE(offset). Every field the code reads,
\* (header >> s) & m with s + width(m) <= 21, lies in these bits; the top byte
\* takes no part (and an unsigned 32-bit value exceeds TLC's integers).
readUInt32BE(buffer, offset) ==
  At(buffer, offset + 1) * 65536 + At(buffer, offset + 2) * 256
    + At(buffer, offset + 3)

\* (header >> shift) & (2^width - 1)
Field(header, shift, width) == (header \div (2 ^ shift)) % (2 ^ width)

\* getMp3FrameLength leaving the padding bit out
getMp3FrameLengthWithoutPadding(buffer, offset) ==
  IF offset + 4 > BLen(buffer) THEN 0
  ELSE LET header == readUInt32BE(buffer, offset)
           version == Field(header, 19, 2)
           layer == Field(header, 17, 2)
           bitrateIndex == Field(header, 12, 4)
           samplingRateIndex == Field(header, 10, 2)
       IN IF bitrateIndex = 0 \/ bitrateIndex = 15 \/ samplingRateIndex = 3 THEN 0
          ELSE IF version = 3 /\ layer = 1
               THEN (144 * (bitrateTable[bitrateIndex + 1] * 1000))
                      \div sampleRateTable[samplingRateIndex + 1]
          ELSE 0

\* getMp3FrameLength(buffer, offset)
getMp3FrameLength(buffer, offset) ==
  IF offset + 4 > BLen(buffer) THEN 0
  ELSE LET header == readUInt32BE(buffer, offset)
           version == Field(header, 19, 2)
           layer == Field(header, 17, 2)
           bitrateIndex == Field(header, 12, 4)
           samplingRateIndex == Field(header, 10, 2)
           padding == Field(header, 9, 1)
       IN IF bitrateIndex = 0 \/ bitrateIndex = 15 \/ samplingRateIndex = 3 THEN 0
          ELSE IF version = 3 /\ layer = 1
               THEN (144 * (bitrateTable[bitrateIndex + 1] * 1000))
                      \div sampleRateTable[samplingRateIndex + 1] + padding
          ELSE 0

\* the while loop of findCompleteFrames: the value of lastFrameEnd at loop exit
RECURSIVE FrameScan(_, _, _)
FrameScan(buffer, offset, lastFrameEnd) ==
  IF ~(offset < BLen(buffer)) THEN lastFrameEnd
  ELSE Let(findMp3FrameSync(buffer, offset), LAMBDA syncOffset :
         IF syncOffset = -1 THEN lastFrameEnd
         ELSE Let(getMp3FrameLength(buffer, syncOffset), LAMBDA frameLength :
                IF frameLength = 0
                THEN FrameScan(buffer, syncOffset + 1, lastFrameEnd)
                ELSE IF syncOffset + frameLength <= BLen(buffer)
                     THEN Let(syncOffset + frameLength, LAMBDA frameEnd :
                            FrameScan(buffer, frameEnd, frameEnd))
                     ELSE lastFrameEnd))

\* the loop body stopping at a sync whose frame length is 0
ScanStepStopsAtUnrecognized(buffer, offset, lastFrameEnd) ==
  Let(findMp3FrameSync(buffer, offset), LAMBDA syncOffset :
    IF syncOffset = -1
    THEN [break |-> TRUE, event |-> "nosync", at |-> -1, frameLength |-> 0,
          offset |-> offset, lastFrameEnd |-> lastFrameEnd]
    ELSE Let(getMp3FrameLength(buffer, syncOffset), LAMBDA frameLength :
           IF frameLength = 0
           THEN [break |-> TRUE, event |-> "skipped", at |-> syncOffset,
                 frameLength |-> 0, offset |-> offset,
                 lastFrameEnd |-> lastFrameEnd]
           ELSE IF syncOffset + frameLength <= BLen(buffer)
           THEN [break |-> FALSE, event |-> "frame", at |-> syncOffset,
                 frameLength |-> frameLength, offset |-> syncOffset + frameLength,
                 lastFrameEnd |-> syncOffset + frameLength]
           ELSE [break |-> TRUE, event |-> "incomplete", at |-> syncOffset,
                 frameLength |-> frameLength, offset |-> offset,
                 lastFrameEnd |-> lastFrameEnd]))

\* the loop body recording the end of the first complete frame only
ScanStepKeepsFirstEnd(buffer, offset, lastFrameEnd) ==
  Let(findMp3FrameSync(buffer, offset), LAMBDA syncOffset :
    IF syncOffset = -1
    THEN [break |-> TRUE, event |-> "nosync", at |-> -1, frameLength |-> 0,
          offset |-> offset, lastFrameEnd |-> lastFrameEnd]
    ELSE Let(getMp3FrameLength(buffer, syncOffset), LAMBDA frameLength :
           IF frameLength = 0
           THEN [break |-> FALSE, event |-> "skipped", at |-> syncOffset,
                 frameLength |-> 0, offset |-> syncOffset + 1,
                 lastFrameEnd |-> lastFrameEnd]
           ELSE IF syncOffset + frameLength <= BLen(buffer)
           THEN [break |-> FALSE, event |-> "frame", at |-> syncOffset,
                 frameLength |-> frameLength, offset |-> syncOffset + frameLength,
                 lastFrameEnd |-> IF lastFrameEnd = 0
                                  THEN syncOffset + frameLength
                                  ELSE lastFrameEnd]
           ELSE [break |-> TRUE, event |-> "incomplete", at |-> syncOffset,
                 frameLength |-> frameLength, offset |-> offset,
                 lastFrameEnd |-> lastFrameEnd]))

\* the loop body resuming at the unrecognized sync itself instead of one byte
\* after it
ScanStepResumesAtSync(buffer, offset, lastFrameEnd) ==
  Let(findMp3FrameSync(buffer, offset), LAMBDA syncOffset :
    IF syncOffset = -1
    THEN [break |-> TRUE, event |-> "nosync", at |-> -1, frameLength |-> 0,
          offset |-> offset, lastFrameEnd |-> lastFrameEnd]
    ELSE Let(getMp3FrameLength(buffer, syncOffset), LAMBDA frameLength :
           IF frameLength = 0
           THEN [break |-> FALSE, event |-> "skipped", at |-> syncOffset,
                 frameLength |-> 0, offset |-> syncOffset,
                 lastFrameEnd |-> lastFrameEnd]
           ELSE IF syncOffset + frameLength <= BLen(buffer)
           THEN [break |-> FALSE, event |-> "frame", at |-> syncOffset,
                 frameLength |-> frameLength, offset |-> syncOffset + frameLength,
                 lastFrameEnd |-> syncOffset + frameLength]
           ELSE [break |-> TRUE, event |-> "incomplete", at |-> syncOffset,
                 frameLength |-> frameLength, offset |-> offset,
                 lastFrameEnd |-> lastFrameEnd]))

\* one execution of the body of `while (offset < buffer.length)`: whether it
\* ends in a break, what it met at which sync, and the new offset and
\* lastFrameEnd
ScanStep(buffer, offset, lastFrameEnd) ==
  Let(findMp3FrameSync(buffer, offset), LAMBDA syncOffset :
    IF syncOffset = -1
    THEN [break |-> TRUE, event |-> "nosync", at |-> -1, frameLength |-> 0,
          offset |-> offset, lastFrameEnd |-> lastFrameEnd]
    ELSE Let(getMp3FrameLength(buffer, syncOffset), LAMBDA frameLength :
           IF frameLength = 0
           THEN [break |-> FALSE, event |-> "skipped", at |-> syncOffset,
                 frameLength |-> 0, offset |-> syncOffset + 1,
                 lastFrameEnd |-> lastFrameEnd]
           ELSE IF syncOffset + frameLength <= BLen(buffer)
           THEN [break |-> FALSE, event |-> "frame", at |-> syncOffset,
                 frameLength |-> frameLength, offset |-> syncOffset + frameLength,
                 lastFrameEnd |-> syncOffset + frameLength]
           ELSE [break |-> TRUE, event |-> "incomplete", at |-> syncOffset,
                 frameLength |-> frameLength, offset |-> offset,
                 lastFrameEnd |-> lastFrameEnd]))

\* findCompleteFrames with the remainder taken one byte late
findCompleteFramesLateRemainder(buffer) ==
  Let(FrameScan(buffer, 0, 0), LAMBDA lastFrameEnd :
    [frames |-> subarray(buffer, 0, lastFrameEnd),
     remainder |-> subarray(buffer, lastFrameEnd + 1, BLen(buffer))])

\* findCompleteFrames(buffer)
findCompleteFrames(buffer) ==
  Let(FrameScan(buffer, 0, 0), LAMBDA lastFrameEnd :
    [frames |-> subarray(buffer, 0, lastFrameEnd),
     remainder |-> subarray(buffer, lastFrameEnd, BLen(buffer))])

\* extractAudioParams(buffer, offset)
extractAudioParams(buffer, offset) ==
  IF offset + 4 > BLen(buffer)
  THEN [version |-> 0, layer |-> 0, bitrate |-> 0, sampleRate |-> 0, valid |-> FALSE]
  ELSE LET header == readUInt32BE(buffer, offset)
           bitrateIndex == Field(header, 12, 4)
           samplingRateIndex == Field(header, 10, 2)
       IN IF bitrateIndex = 0 \/ bitrateIndex = 15 \/ samplingRateIndex = 3
          THEN [version |-> 0, layer |-> 0, bitrate |-> 0, sampleRate |-> 0,
                valid |-> FALSE]
          ELSE [version |-> Field(header, 19, 2), layer |-> Field(header, 17, 2),
                bitrate |-> bitrateTable[bitrateIndex + 1],
                sampleRate |-> sampleRateTable[samplingRateIndex + 1],
                valid |-> TRUE]

----------------------------------------------------------------------------
(* Tag Stripper: the transform and flush handlers of createStripperTransform *)

HasBytesAt(buf, off, magic) ==
  /\ At(buf, off) = magic[1]
  /\ At(buf, off + 1) = magic[2]
  /\ At(buf, off + 2) = magic[3]

\* the synchsafe size of an ID3v2 header held at the start of buf
SynchsafeSize(buf) ==
  (At(buf, 6) % 128) * 2097152 + (At(buf, 7) % 128) * 16384
    + (At(buf, 8) % 128) * 128 + (At(buf, 9) % 128)

\* totalTagSize without the 10 bytes of the header
totalTagSizeWithoutHeader(buf) == SynchsafeSize(buf)

\* const totalTagSize = size + 10
totalTagSize(buf) == SynchsafeSize(buf) + 10

\* the streaming branch leaving the emitted frames in the buffer
StreamingKeepsEmitted(buf) ==
  Let(findCompleteFrames(buf), LAMBDA split :
    IF BLen(split.frames) > 0
    THEN [error |-> "none", pushed |-> TRUE, push |-> split.frames,
          buffer |-> buf, headerStripped |-> TRUE, callbacks |-> 1]
    ELSE [error |-> "none", pushed |-> FALSE, push |-> << >>,
          buffer |-> buf, headerStripped |-> TRUE, callbacks |-> 1])

\* the streaming branch emitting the whole buffer once it holds a frame
StreamingEmitsAll(buf) ==
  Let(findCompleteFrames(buf), LAMBDA split :
    IF BLen(split.frames) > 0
    THEN [error |-> "none", pushed |-> TRUE, push |-> buf,
          buffer |-> << >>, headerStripped |-> TRUE, callbacks |-> 1]
    ELSE [error |-> "none", pushed |-> FALSE, push |-> << >>,
          buffer |-> buf, headerStripped |-> TRUE, callbacks |-> 1])

\* the streaming branch forgetting the remainder once frames were emitted
StreamingForgetsRemainder(buf) ==
  Let(findCompleteFrames(buf), LAMBDA split :
    IF BLen(split.frames) > 0
    THEN [error |-> "none", pushed |-> TRUE, push |-> split.frames,
          buffer |-> << >>, headerStripped |-> TRUE, callbacks |-> 1]
    ELSE [error |-> "none", pushed |-> FALSE, push |-> << >>,
          buffer |-> buf, headerStripped |-> TRUE, callbacks |-> 1])

\* the streaming branch with the best-effort slice taken as soon as the buffer
\* reaches PROCESSING_CHUNK_SIZE
StreamingBestEffortAtChunkSize(buf) ==
  Let(findCompleteFrames(buf), LAMBDA split :
    IF BLen(split.frames) > 0
    THEN [error |-> "none", pushed |-> TRUE, push |-> split.frames,
          buffer |-> split.remainder, headerStripped |-> TRUE, callbacks |-> 1]
    ELSE IF BLen(buf) >= PROCESSING_CHUNK_SIZE
         THEN [error |-> "none", pushed |-> TRUE,
               push |-> subarray(buf, 0, PROCESSING_CHUNK_SIZE),
               buffer |-> subarray(buf, PROCESSING_CHUNK_SIZE, BLen(buf)),
               headerStripped |-> TRUE, callbacks |-> 1]
         ELSE [error |-> "none", pushed |-> FALSE, push |-> << >>,
               buffer |-> buf, headerStripped |-> TRUE, callbacks |-> 1])

\* the branch `if (headerStripped)` of the transform handler, on buffer buf.
\* Both arms of `buffer.length >= PROCESSING_CHUNK_SIZE` emit the complete frames
\* when there are any; only the first arm has the best-effort slice.
\* push = << >> with pushed = FALSE is callback(null, null).
Streaming(buf) ==
  Let(findCompleteFrames(buf), LAMBDA split :
    IF BLen(split.frames) > 0
    THEN [error |-> "none", pushed |-> TRUE, push |-> split.frames,
          buffer |-> split.remainder, headerStripped |-> TRUE, callbacks |-> 1]
    ELSE IF BLen(buf) >= PROCESSING_CHUNK_SIZE /\ BLen(buf) > PROCESSING_CHUNK_SIZE * 2
         THEN [error |-> "none", pushed |-> TRUE,
               push |-> subarray(buf, 0, PROCESSING_CHUNK_SIZE),
               buffer |-> subarray(buf, PROCESSING_CHUNK_SIZE, BLen(buf)),
               headerStripped |-> TRUE, callbacks |-> 1]
         ELSE [error |-> "none", pushed |-> FALSE, push |-> << >>,
               buffer |-> buf, headerStripped |-> TRUE, callbacks |-> 1])

\* every stripper starting with the header decision still to be taken
InitialHeaderStrippedNever(first) == FALSE

\* `let headerStripped = isFirst`
InitialHeaderStripped(first) == first

\* the safety check left out
OverflowsNever(b1) == FALSE

\* the safety check compared against twice the limit
OverflowsAtTwiceTheLimit(b1) == BLen(b1) > MAX_BUFFER_SIZE * 2

\* `buffer.length > AudioDataTransformer.MAX_BUFFER_SIZE`
Overflows(b1) == BLen(b1) > MAX_BUFFER_SIZE

\* the tag size check never failing
TagNeverTooLarge(b1) == FALSE

\* `totalTagSize > AudioDataTransformer.MAX_ID3V2_TAG_SIZE`
TagTooLarge(b1) == totalTagSize(b1) > MAX_ID3V2_TAG_SIZE

\* the handler returning without a callback while the tag is incomplete
AfterConcatSilentWait(hs, b1) ==
  LET wait == [error |-> "none", pushed |-> FALSE, push |-> << >>,
               buffer |-> b1, headerStripped |-> hs, callbacks |-> 1]
  IN IF Overflows(b1)
     THEN [wait EXCEPT !.error = "overflow"]
     ELSE IF ~hs /\ BLen(b1) >= ID3v2TagLength
          THEN IF HasBytesAt(b1, 0, ID3v2)
               THEN IF TagTooLarge(b1)
                    THEN [wait EXCEPT !.error = "tagsize"]
                    ELSE IF BLen(b1) >= totalTagSize(b1)
                         THEN Let(subarray(b1, totalTagSize(b1), BLen(b1)), Streaming)
                         ELSE [wait EXCEPT !.callbacks = 0]
               ELSE Streaming(b1)
          ELSE IF hs THEN Streaming(b1) ELSE wait

\* the handler taking fewer than 10 bytes for a file without an ID3v2 tag
AfterConcatDecidesEarly(hs, b1) ==
  LET wait == [error |-> "none", pushed |-> FALSE, push |-> << >>,
               buffer |-> b1, headerStripped |-> hs, callbacks |-> 1]
  IN IF Overflows(b1)
     THEN [wait EXCEPT !.error = "overflow"]
     ELSE IF ~hs /\ BLen(b1) >= ID3v2TagLength
          THEN IF HasBytesAt(b1, 0, ID3v2)
               THEN IF TagTooLarge(b1)
                    THEN [wait EXCEPT !.error = "tagsize"]
                    ELSE IF BLen(b1) >= totalTagSize(b1)
                         THEN Let(subarray(b1, totalTagSize(b1), BLen(b1)), Streaming)
                         ELSE wait
               ELSE Streaming(b1)
          ELSE Streaming(b1)

\* the handler after `buffer = Buffer.concat([buffer, chunk])`, b1 the new buffer.
\* callbacks counts the calls of `callback` on the path taken: each of the error
\* paths, the two waiting paths and every arm of the streaming branch calls it
\* once and returns or falls off the end of the handler.
AfterConcat(hs, b1) ==
  LET wait == [error |-> "none", pushed |-> FALSE, push |-> << >>,
               buffer |-> b1, headerStripped |-> hs, callbacks |-> 1]
  IN IF Overflows(b1)
     THEN [wait EXCEPT !.error = "overflow"]
     ELSE IF ~hs /\ BLen(b1) >= ID3v2TagLength
          THEN IF HasBytesAt(b1, 0, ID3v2)
               THEN IF TagTooLarge(b1)
                    THEN [wait EXCEPT !.error = "tagsize"]
                    ELSE IF BLen(b1) >= totalTagSize(b1)
                         THEN Let(subarray(b1, totalTagSize(b1), BLen(b1)), Streaming)
                         ELSE wait
               ELSE Streaming(b1)
          ELSE IF hs THEN Streaming(b1) ELSE wait

\* transform(chunk, _, callback) on closure state (headerStripped, buffer)
transform(hs, buf, chunk) ==
  Let(Cat(buf, chunk), LAMBDA b1 : AfterConcat(hs, b1))

\* the ID3v1 strip of flush for a non-last file
StripID3v1(buf) ==
  IF BLen(buf) >= ID3v1TagLength /\ HasBytesAt(buf, BLen(buf) - ID3v1TagLength, ID3v1)
  THEN subarray(buf, 0, BLen(buf) - ID3v1TagLength)
  ELSE buf

\* flush(callback): the calls of `callback` on the path taken
flushCallbacks(last, buf) ==
  IF last THEN 1
  ELSE Let(StripID3v1(buf), LAMBDA b1 :
         Let(findCompleteFrames(b1).frames, LAMBDA frames :
           IF BLen(frames) > 0 THEN 1 ELSE 1))

\* flush without the final split: a non-last file emits its whole buffer
flushEmitsWholeBuffer(last, buf) ==
  IF last THEN buf ELSE StripID3v1(buf)

\* flush without the isLast branch: the ID3v1 strip runs for every file
flushStripsAlways(last, buf) ==
  Let(StripID3v1(buf), LAMBDA b1 :
    Let(findCompleteFrames(b1).frames, LAMBDA frames :
      IF BLen(frames) > 0 THEN frames ELSE b1))

\* flush(callback): the data handed to the callback
flush(last, buf) ==
  IF last THEN buf
  ELSE Let(StripID3v1(buf), LAMBDA b1 :
         Let(findCompleteFrames(b1).frames, LAMBDA frames :
           IF BLen(frames) > 0 THEN frames ELSE b1))

----------------------------------------------------------------------------
(* Input files: the environment of one concatenate call                    *)

\* bounds of the model
MaxFiles == 3

\* FF FB b2 00 followed by the payload: an MPEG-1 Layer III frame whose length
\* is the one its header declares
Header(b2) == FromBytes(<<255, 251, b2, 0>>)
Frame(b2, fill) ==
  Cat(Header(b2), Run(fill, getMp3FrameLength(Cat(Header(b2), Run(0, 4)), 0) - 4))

\* 'ID3' 03 00 00 <synchsafe size> followed by size payload bytes
Id3v2Header(s3, s2, s1, s0) == FromBytes(<<73, 68, 51, 3, 0, 0, s3, s2, s1, s0>>)
Id3v2Tag(size) == Cat(Id3v2Header(0, 0, size \div 128, size % 128), Run(32, size))

\* 'TAG', 124 bytes of text, genre byte 0xFF: 128 bytes
Id3v1Tag == Cat(FromBytes(<<84, 65, 71>>), Cat(Run(32, 124), Run(255, 1)))

\* an ID3v1 block whose title field begins FF FB 24 00: the four bytes read as the
\* header of a 120-byte MPEG-1 Layer III frame (40 kbit/s, 48 kHz)
Id3v1TagWithSync ==
  Cat(FromBytes(<<84, 65, 71, 255, 251, 36, 0>>), Cat(Run(32, 120), Run(255, 1)))

\* the parts each file is made of
Parts(f) ==
  CASE f = "a.mp3" -> << Frame(20, 17), Frame(22, 18) >>
    [] f = "b.mp3" -> << Frame(144, 33) >>
    [] f = "id3.mp3" -> << Id3v2Tag(300), Frame(20, 49) >>
    [] f = "tag.mp3" -> << Frame(20, 65), Id3v1Tag >>
    [] f = "tagsync.mp3" -> << Frame(20, 97), Id3v1TagWithSync >>
    [] f = "bigtag.mp3" -> << Id3v2Header(5, 0, 0, 0), Frame(20, 81) >>
    [] f = "huge.bin" -> << Run(0, MAX_BUFFER_SIZE), Run(0, 1) >>
    [] f = "id3huge.bin" -> << Id3v2Header(4, 64, 0, 0), Run(0, MAX_BUFFER_SIZE) >>
    [] f = "framehuge.bin" -> << Frame(20, 17), Run(0, MAX_BUFFER_SIZE + 1) >>
    [] f = "tagmax.bin" -> << Id3v2Header(4, 127, 127, 118), Run(32, 20) >>
    [] f = "tagover.bin" -> << Id3v2Header(4, 127, 127, 119), Run(32, 20) >>
    [] f = "trunc.bin" -> << Id3v2Header(0, 0, 7, 104), Frame(20, 113), Run(1, 5) >>
    [] f = "tail.bin" -> << Frame(20, 129), Run(1, 5) >>
    [] f = "short.bin" -> << Run(1, 5) >>
    [] f = "flood.bin" -> << Run(0, MAX_BUFFER_SIZE), Run(0, MAX_BUFFER_SIZE) >>
    [] f = "tagwait.bin" ->
         << Id3v2Header(4, 64, 0, 0), Run(0, 5 * PROCESSING_CHUNK_SIZE),
            Run(0, 5 * PROCESSING_CHUNK_SIZE) >>
    [] f = "latency.bin" ->
         << Run(0, PROCESSING_CHUNK_SIZE), Run(0, PROCESSING_CHUNK_SIZE), Run(0, 1) >>
    [] f = "framebig.bin" -> << Frame(20, 17), Run(0, 2 * PROCESSING_CHUNK_SIZE) >>
    [] f = "badhdr.mp3" -> << Header(240), Run(0, 92) >>
    [] f = "badrate.mp3" -> << Header(28), Run(0, 92) >>
    [] f = "late.mp3" -> << Run(0, ValidationPrefix - 3), Header(20), Run(0, 92) >>
    [] f = "nosync.mp3" -> << Run(32, 50) >>
    [] f = "layer2.mp3" -> << FromBytes(<<255, 253, 20, 0>>), Run(0, 92) >>
    [] f = "k96.mp3" -> << Frame(116, 1) >>
    [] f = "k112.mp3" -> << Frame(132, 1) >>
    [] OTHER -> << >>

\* regular files; "dir.mp3" can be opened but every read of it fails (EISDIR);
\* "missing.mp3" cannot be opened (ENOENT)
Regular == {"a.mp3", "b.mp3", "id3.mp3", "tag.mp3", "tagsync.mp3", "bigtag.mp3"}
Existing == Regular \cup {"dir.mp3"}
Paths == Existing \cup {"missing.mp3"}

\* byte streams written straight to a Tag Stripper (createStripperTransform is
\* public): the regular files and
\*   huge.bin       MAX_BUFFER_SIZE + 1 bytes without any sync
\*   id3huge.bin    an ID3v2 header declaring 9 MiB, then MAX_BUFFER_SIZE bytes
\*   framehuge.bin  one frame, then MAX_BUFFER_SIZE + 1 bytes without any sync
\*   tagmax.bin     an ID3v2 header declaring exactly MAX_ID3V2_TAG_SIZE in total
\*   tagover.bin    an ID3v2 header declaring one byte more than that
\*   trunc.bin      an ID3v2 header declaring 1000 bytes, of which 101 follow:
\*                  one frame and 5 more bytes
\*   tail.bin       one frame followed by 5 bytes that belong to no frame
\*   short.bin      5 bytes: fewer than an ID3v2 header
\*   flood.bin      2 * MAX_BUFFER_SIZE bytes without any sync
\*   tagwait.bin    an ID3v2 header declaring 9 MiB, then 10 MiB in two halves
\*   latency.bin    2 * PROCESSING_CHUNK_SIZE + 1 bytes without any sync
\*   framebig.bin   one frame, then 2 * PROCESSING_CHUNK_SIZE bytes without any sync
Streams ==
  Regular \cup {"huge.bin", "id3huge.bin", "framehuge.bin", "tagmax.bin",
               "tagover.bin", "trunc.bin", "tail.bin", "short.bin",
               "flood.bin", "tagwait.bin", "latency.bin", "framebig.bin"}

RECURSIVE CatAll(_)
CatAll(bufs) == IF bufs = << >> THEN << >> ELSE Cat(bufs[1], CatAll(Tail(bufs)))

\* regular files that only the validator is given, one per kind of first header:
\*   badhdr.mp3   FF FB F0 00: bitrate index 15
\*   badrate.mp3  FF FB 1C 00: sample rate index 3
\*   late.mp3     the first sync at offset 1021: its header ends after the prefix
\*   nosync.mp3   no sync at all
\*   layer2.mp3   FF FD 14 00: Layer II, bitrate index 1, 48 kHz
\*   k96.mp3      FF FB 74 00: 96 kbit/s, 48 kHz
\*   k112.mp3     FF FB 84 00: 112 kbit/s, 48 kHz
Samples ==
  {"badhdr.mp3", "badrate.mp3", "late.mp3", "nosync.mp3", "layer2.mp3",
   "k96.mp3", "k112.mp3"}

\* the paths fs.promises.open succeeds on, and those fd.read succeeds on
Openable == Existing \cup Samples
Readable == Regular \cup Samples

ContentTable == [f \in Paths \cup Streams \cup Samples |-> CatAll(Parts(f))]
Content(f) == ContentTable[f]

\* offsets at which the read stream may end a chunk: the part boundaries and a few
\* bytes after each (inside a 4-byte frame header, at the end of the 10-byte
\* ID3v2 header), and the end of the file
CutDeltas == {0, 2, 10}

RECURSIVE PartStarts(_, _)
PartStarts(parts, from) ==
  IF parts = << >> THEN {}
  ELSE {from} \cup PartStarts(Tail(parts), from + BLen(parts[1]))

CutTable ==
  [f \in Paths \cup Streams |->
     {c \in {s + d : s \in PartStarts(Parts(f), 0), d \in CutDeltas} :
         c > 0 /\ c < BLen(Content(f))} \cup {BLen(Content(f))}]
CutOffsets(f) == CutTable[f]

\* the argument lists of the model: every list of at most MaxFiles paths
InputLists == UNION {[1 .. n -> Paths] : n \in 0 .. MaxFiles}

----------------------------------------------------------------------------
(* State of one call concatenate(inputFiles, outputFile)                   *)

VARIABLES
  inputFiles,     \* the argument: a sequence of paths
  pc,             \* where the async function concatenate stands
  fileParams,     \* validateAudioCompatibility: the records pushed so far
  warnings,       \* validateAudioCompatibility: the warnings pushed so far
  handles,        \* file handles opened by the validator and not closed
  console,        \* what console.warn has printed
  i,              \* the loop variable of concatenate (0-based)
  sink,           \* outputStream: "none", "open", "ending", "finished", "errored"
  ends,           \* number of calls of outputStream.end()
  out,            \* the bytes written to outputStream, in write order
  opens,          \* the input positions createReadStream was called for, in order
  piping,         \* the input positions whose pipeline is running
  completed,      \* the input positions whose pipeline resolved
  cur,            \* the input position of the stream being read
  pos,            \* how many bytes of it the read stream has delivered
  isFirst,        \* parameters and closure state of the current Tag Stripper
  isLast,
  headerStripped,
  buffer,
  flushed,        \* the current Tag Stripper's flush handler has run
  emitted,        \* per input position: the bytes its Tag Stripper pushed
  failure,        \* the failure that hit a pipeline, if any
  err,            \* the error concatenate rejected with, if any
  config,         \* APIClient: this.config
  attempt,        \* executeWithRetry: the loop variable
  fetchCalls,     \* executeWithRetry: the outcomes of the calls of fetch, in order
  delays,         \* executeWithRetry: the delays slept, in order
  settled,        \* executeWithRetry: what the call returned or threw, if anything
  offset,         \* findCompleteFrames / getMp3FrameLength: offset
  lastFrameEnd,   \* findCompleteFrames: lastFrameEnd
  frameLength,    \* the last value getMp3FrameLength returned
  recognized,     \* findCompleteFrames: the complete frames found, in order
  skipped,        \* findCompleteFrames: the syncs it read a frame length 0 at
  split,          \* what findCompleteFrames returned, if it has
  callbacks,      \* callback calls made by the latest handler run of the stripper
  instances       \* the Tag Strippers created side by side, by instance number

vars == <<inputFiles, pc, fileParams, warnings, handles, console, i, sink, ends,
          out, opens, piping, completed, cur, pos, isFirst, isLast,
          headerStripped, buffer, flushed, emitted, failure, err,
          config, attempt, fetchCalls, delays, settled,
          offset, lastFrameEnd, frameLength, recognized, skipped, split,
          callbacks, instances>>

clientVars == <<config, attempt, fetchCalls, delays, settled>>
scanVars == <<offset, lastFrameEnd, frameLength, recognized, skipped, split>>
validatorVars == <<fileParams, warnings, handles, console>>
stripperVars == <<cur, pos, isFirst, isLast, headerStripped, buffer, flushed>>

NoError == [kind |-> "none"]
NoFailure == [at |-> -1, cause |-> "none"]
N == Len(inputFiles)

\* no executeWithRetry call is under way
Pending == [kind |-> "pending"]
ClientIdle ==
  /\ config = [retries |-> 3, timeout |-> 30000, baseDelay |-> 1000, maxDelay |-> 10000]
  /\ attempt = 0
  /\ fetchCalls = << >>
  /\ delays = << >>
  /\ settled = Pending

\* no Tag Strippers were created side by side
PairIdle == instances = << >>

\* no findCompleteFrames or getMp3FrameLength call is under way
NoSplit == [frames |-> << >>, remainder |-> << >>, returned |-> FALSE]
ScanIdle ==
  /\ offset = 0
  /\ lastFrameEnd = 0
  /\ frameLength = 0
  /\ recognized = << >>
  /\ skipped = << >>
  /\ split = NoSplit

Init ==
  /\ inputFiles \in InputLists
  /\ pc = "call"
  /\ fileParams = << >>
  /\ warnings = << >>
  /\ handles = 0
  /\ console = << >>
  /\ i = 0
  /\ sink = "none"
  /\ ends = 0
  /\ out = << >>
  /\ opens = << >>
  /\ piping = {}
  /\ completed = {}
  /\ cur = 0
  /\ pos = 0
  /\ isFirst = FALSE
  /\ isLast = FALSE
  /\ headerStripped = FALSE
  /\ buffer = << >>
  /\ flushed = FALSE
  /\ callbacks = 0
  /\ emitted = [j \in 0 .. (Len(inputFiles) - 1) |-> << >>]
  /\ failure = NoFailure
  /\ err = NoError
  /\ ClientIdle
  /\ PairIdle
  /\ ScanIdle

----------------------------------------------------------------------------
(* Compatibility validator                                                 *)

InvalidParams ==
  [version |-> 0, layer |-> 0, bitrate |-> 0, sampleRate |-> 0, valid |-> FALSE]

\* Buffer.alloc(1024) after fd.read(buffer, 0, 1024, 0) on file f
PrefixOf(f) ==
  Cat(TakeB(Content(f), ValidationPrefix),
      Run(0, ValidationPrefix - BLen(TakeB(Content(f), ValidationPrefix))))

RECURSIVE SelectValid(_)
SelectValid(ps) ==
  IF ps = << >> THEN << >>
  ELSE IF ps[1].valid THEN << ps[1] >> \o SelectValid(Tail(ps))
  ELSE SelectValid(Tail(ps))

Abs(x) == IF x < 0 THEN -x ELSE x

\* the warnings of the body of `for (let i = 1; ...)` for one i (0-based, as in
\* the code: i indexes validParams)
MismatchWarnings(firstParams, currentParams, k) ==
  (IF currentParams.sampleRate # firstParams.sampleRate
   THEN << [type |-> "sampleRate", refNo |-> 1, ref |-> firstParams.sampleRate,
            fileNo |-> k + 1, value |-> currentParams.sampleRate] >>
   ELSE << >>)
  \o (IF Abs(currentParams.bitrate - firstParams.bitrate) > BitrateThreshold
      THEN << [type |-> "bitrate", refNo |-> 1, ref |-> firstParams.bitrate,
               fileNo |-> k + 1, value |-> currentParams.bitrate] >>
      ELSE << >>)
  \o (IF currentParams.version # firstParams.version
         \/ currentParams.layer # firstParams.layer
      THEN << [type |-> "versionLayer"] >>
      ELSE << >>)

\* the consistency loop comparing each valid file to the one before it
RECURSIVE CompareFromPrevious(_, _)
CompareFromPrevious(validParams, k) ==
  IF ~(k < Len(validParams)) THEN << >>
  ELSE MismatchWarnings(validParams[k], validParams[k + 1], k)
         \o CompareFromPrevious(validParams, k + 1)

RECURSIVE CompareFrom(_, _)
CompareFrom(validParams, k) ==
  IF ~(k < Len(validParams)) THEN << >>
  ELSE MismatchWarnings(validParams[1], validParams[k + 1], k)
         \o CompareFrom(validParams, k + 1)

\* the consistency check after the read loop
ConsistencyWarnings(params) ==
  LET validParams == SelectValid(params)
  IN IF Len(validParams) > 1 THEN CompareFrom(validParams, 1) ELSE << >>

\* one iteration of `for (const file of inputFiles)`: what it pushes, and the
\* handles it opens and closes
ValidateOne(file) ==
  IF file \notin Openable
  THEN \* fs.promises.open throws
       [params |-> InvalidParams, opened |-> 0, closed |-> 0,
        warning |-> << [type |-> "unreadable", file |-> file] >>]
  ELSE IF file \notin Readable
  THEN \* fd.read throws: the catch block runs, fd.close() is skipped
       [params |-> InvalidParams, opened |-> 1, closed |-> 0,
        warning |-> << [type |-> "unreadable", file |-> file] >>]
  ELSE LET buf == PrefixOf(file)
           syncOffset == findMp3FrameSync(buf, 0)
       IN IF syncOffset # -1
          THEN [params |-> extractAudioParams(buf, syncOffset),
                opened |-> 1, closed |-> 1, warning |-> << >>]
          ELSE [params |-> InvalidParams, opened |-> 1, closed |-> 1,
                warning |-> << [type |-> "noFrame", file |-> file] >>]

\* the early return taken for the empty list only
SkipsValidationBelowOne(n) == n < 1

\* validateAudioCompatibility without the early return
NeverSkipsValidation(n) == FALSE

\* `if (inputFiles.length < 2) return warnings`
SkipsValidation(n) == n < 2

----------------------------------------------------------------------------
(* concatenate: validation                                                 *)

\* concatenate is called; validateAudioCompatibility starts
Call ==
  /\ pc = "call"
  /\ pc' = IF SkipsValidation(N) THEN "validated" ELSE "validate"
  /\ UNCHANGED <<instances, callbacks, clientVars, scanVars, inputFiles, validatorVars, i, sink, ends, out, opens, piping,
                 completed, stripperVars, emitted, failure, err>>

\* one iteration of the read loop of validateAudioCompatibility
ValidateFile ==
  /\ pc = "validate"
  /\ Len(fileParams) < N
  /\ \E r \in {ValidateOne(inputFiles[Len(fileParams) + 1])} :
        /\ fileParams' = Append(fileParams, r.params)
        /\ warnings' = warnings \o r.warning
        /\ handles' = handles + r.opened - r.closed
  /\ UNCHANGED <<instances, callbacks, clientVars, scanVars, inputFiles, pc, console, i, sink, ends, out, opens, piping,
                 completed, stripperVars, emitted, failure, err>>

\* the consistency check; validateAudioCompatibility returns
ValidateCompare ==
  /\ pc = "validate"
  /\ ~(Len(fileParams) < N)
  /\ warnings' = warnings \o ConsistencyWarnings(fileParams)
  /\ pc' = "validated"
  /\ UNCHANGED <<instances, callbacks, clientVars, scanVars, inputFiles, fileParams, handles, console, i, sink, ends, out,
                 opens, piping, completed, stripperVars, emitted, failure, err>>

\* concatenate giving up when the validator returned warnings
CreateOutputStrict ==
  /\ pc = "validated"
  /\ console' = console \o warnings
  /\ fileParams' = << >>
  /\ warnings' = << >>
  /\ IF warnings = << >>
     THEN sink' = "open" /\ i' = 0 /\ pc' = "loop" /\ err' = err
     ELSE sink' = sink /\ i' = i /\ pc' = "rejected"
          /\ err' = [kind |-> "incompatible"]
  /\ UNCHANGED <<instances, callbacks, clientVars, scanVars, inputFiles, handles, ends, out, opens, piping, completed,
                 stripperVars, emitted, failure>>

\* warnings.forEach(console.warn); fs.createWriteStream(outputFile); i = 0
CreateOutput ==
  /\ pc = "validated"
  /\ console' = console \o warnings
  /\ fileParams' = << >>
  /\ warnings' = << >>
  /\ sink' = "open"
  /\ i' = 0
  /\ pc' = "loop"
  /\ UNCHANGED <<instances, callbacks, clientVars, scanVars, inputFiles, handles, ends, out, opens, piping, completed,
                 stripperVars, emitted, failure, err>>

----------------------------------------------------------------------------
(* concatenate: the loop over the inputs                                   *)

\* `i < inputFiles.length`
LoopCond(k, n) == k < n

\* the loop walking the list from its end
SourceIndexReversed(k, n) == n - 1 - k

\* the input read in iteration k: inputFiles[k]
SourceIndex(k, n) == k

\* pipeline without `end: false` (the default ends the destination)
PipelineEndDefault == TRUE

\* the option `end` passed to pipeline
PipelineEnd == FALSE

\* the Error of the catch block with the 0-based position
ProcessErrorZeroBased(k, cause) ==
  [kind |-> "process", file |-> inputFiles[k + 1], position |-> k,
   total |-> N, cause |-> cause]

\* the Error thrown by the catch block of iteration k
ProcessError(k, cause) ==
  [kind |-> "process", file |-> inputFiles[k + 1], position |-> k + 1,
   total |-> N, cause |-> cause]

\* the second argument of concatenate
outputFile == "output.mp3"

\* the Error the 'error' listener of outputStream rejects with
OutputError(cause) ==
  [kind |-> "output", outputFile |-> outputFile, cause |-> cause]

CurrentFile == inputFiles[cur + 1]

\* createReadStream, createStripperTransform, pipeline(...) is awaited
OpenInput ==
  /\ pc = "loop"
  /\ LoopCond(i, N)
  /\ cur' = SourceIndex(i, N)
  /\ opens' = Append(opens, cur')
  /\ piping' = piping \cup {cur'}
  /\ pos' = 0
  /\ isFirst' = (i = 0)
  /\ isLast' = (i = N - 1)
  /\ headerStripped' = InitialHeaderStripped(isFirst')
  /\ buffer' = << >>
  /\ flushed' = FALSE
  /\ pc' = "await"
  /\ UNCHANGED <<instances, callbacks, clientVars, scanVars, inputFiles, validatorVars, i, sink, ends, out, completed,
                 emitted, failure, err>>

\* pipeline rejects, the catch block throws: concatenate rejects
Reject(cause) ==
  /\ failure' = [at |-> cur, cause |-> cause]
  /\ err' = ProcessError(i, cause)
  /\ piping' = piping \ {cur}
  /\ pc' = "rejected"

\* the read stream delivers the next chunk and the transform handler runs on it
Transform ==
  /\ pc = "await"
  /\ sink = "open"
  /\ ~flushed
  /\ CurrentFile \in Regular
  /\ \E c \in CutOffsets(CurrentFile) :
       /\ c > pos
       /\ \E r \in {transform(headerStripped, buffer,
                               subarray(Content(CurrentFile), pos, c))} :
             /\ pos' = c
             /\ buffer' = r.buffer
             /\ headerStripped' = r.headerStripped
             /\ callbacks' = r.callbacks
             /\ IF r.error # "none"
                THEN /\ Reject(r.error)
                     /\ UNCHANGED <<out, emitted>>
                ELSE /\ out' = Cat(out, r.push)
                     /\ emitted' = [emitted EXCEPT ![cur] = Cat(@, r.push)]
                     /\ UNCHANGED <<failure, err, piping, pc>>
  /\ UNCHANGED <<instances, clientVars, scanVars, inputFiles, validatorVars, i, sink, ends, opens, completed,
                 cur, isFirst, isLast, flushed>>

\* the read stream ended: the flush handler runs
Flush ==
  /\ pc = "await"
  /\ sink = "open"
  /\ ~flushed
  /\ CurrentFile \in Regular
  /\ pos = BLen(Content(CurrentFile))
  /\ \E data \in {flush(isLast, buffer)} :
        /\ out' = Cat(out, data)
        /\ emitted' = [emitted EXCEPT ![cur] = Cat(@, data)]
  /\ buffer' = IF isLast THEN buffer ELSE StripID3v1(buffer)
  /\ flushed' = TRUE
  /\ callbacks' = flushCallbacks(isLast, buffer)
  /\ UNCHANGED <<instances, clientVars, scanVars, inputFiles, pc, validatorVars, i, sink, ends, opens, piping,
                 completed, cur, pos, isFirst, isLast, headerStripped, failure, err>>

\* the pipeline of the current input resolves; i++
PipelineDone ==
  /\ pc = "await"
  /\ sink = "open"
  /\ flushed
  /\ completed' = completed \cup {cur}
  /\ piping' = piping \ {cur}
  /\ ends' = IF PipelineEnd THEN ends + 1 ELSE ends
  /\ sink' = IF PipelineEnd THEN "ending" ELSE sink
  /\ i' = i + 1
  /\ pc' = "loop"
  /\ UNCHANGED <<instances, callbacks, clientVars, scanVars, inputFiles, validatorVars, out, opens, stripperVars, emitted,
                 failure, err>>

\* a catch block that runs the iteration again instead of throwing
ReadErrorRetry ==
  /\ pc = "await"
  /\ ~flushed
  /\ piping' = piping \ {cur}
  /\ pc' = "loop"
  /\ UNCHANGED <<instances, callbacks, clientVars, scanVars, inputFiles, validatorVars, i, sink, ends, out, opens,
                 completed, stripperVars, emitted, failure, err>>

\* the read stream emits 'error' (open or read failure)
ReadError ==
  /\ pc = "await"
  /\ ~flushed
  /\ Reject("read")
  /\ UNCHANGED <<instances, callbacks, clientVars, scanVars, inputFiles, validatorVars, i, sink, ends, out, opens,
                 completed, stripperVars, emitted>>

\* outputStream emits 'error' while a pipeline is running
SinkError ==
  /\ pc = "await"
  /\ sink = "open"
  /\ sink' = "errored"
  /\ Reject("sink")
  /\ UNCHANGED <<instances, callbacks, clientVars, scanVars, inputFiles, validatorVars, i, ends, out, opens, completed,
                 stripperVars, emitted>>

----------------------------------------------------------------------------
(* concatenate: closing the output                                         *)

\* outputStream.end(); the promise with the 'finish' and 'error' listeners
EndOutput ==
  /\ pc = "loop"
  /\ ~LoopCond(i, N)
  /\ ends' = ends + 1
  /\ sink' = IF sink = "open" THEN "ending" ELSE sink
  /\ pc' = "finishing"
  /\ UNCHANGED <<instances, callbacks, clientVars, scanVars, inputFiles, validatorVars, i, out, opens, piping, completed,
                 stripperVars, emitted, failure, err>>

\* a 'finish' listener that does not call resolve
SinkFinishUnanswered ==
  /\ pc = "finishing"
  /\ sink = "ending"
  /\ sink' = "finished"
  /\ UNCHANGED <<instances, callbacks, clientVars, scanVars, inputFiles, pc, validatorVars, i, ends, out, opens, piping,
                 completed, stripperVars, emitted, failure, err>>

\* outputStream emits 'finish': resolve()
SinkFinish ==
  /\ pc = "finishing"
  /\ sink = "ending"
  /\ sink' = "finished"
  /\ pc' = "resolved"
  /\ UNCHANGED <<instances, callbacks, clientVars, scanVars, inputFiles, validatorVars, i, ends, out, opens, piping,
                 completed, stripperVars, emitted, failure, err>>

\* an 'error' after end() that lets the promise resolve
SinkCloseErrorResolves ==
  /\ pc = "finishing"
  /\ sink = "ending"
  /\ sink' = "errored"
  /\ pc' = "resolved"
  /\ UNCHANGED <<instances, callbacks, clientVars, scanVars, inputFiles, validatorVars, i, ends, out, opens, piping,
                 completed, stripperVars, emitted, failure, err>>

\* outputStream emits 'error' after end(): reject(...)
SinkCloseError ==
  /\ pc = "finishing"
  /\ sink = "ending"
  /\ sink' = "errored"
  /\ err' = OutputError("sink")
  /\ pc' = "rejected"
  /\ UNCHANGED <<instances, callbacks, clientVars, scanVars, inputFiles, validatorVars, i, ends, out, opens, piping,
                 completed, stripperVars, emitted, failure>>

----------------------------------------------------------------------------
(* One Tag Stripper driven directly: createStripperTransform(isFirst, isLast), *)
(* transform.write(chunk) for each chunk of a stream, then transform.end()     *)

StripperInit ==
  /\ \E s \in Streams : inputFiles = << s >>
  /\ isFirst \in BOOLEAN
  /\ isLast \in BOOLEAN
  /\ headerStripped = InitialHeaderStripped(isFirst)
  /\ buffer = << >>
  /\ flushed = FALSE
  /\ callbacks = 0
  /\ pc = "stream"
  /\ cur = 0
  /\ pos = 0
  /\ emitted = [j \in {0} |-> << >>]
  /\ out = << >>
  /\ failure = NoFailure
  /\ err = NoError
  /\ ClientIdle
  /\ PairIdle
  /\ ScanIdle
  /\ fileParams = << >> /\ warnings = << >> /\ handles = 0 /\ console = << >>
  /\ i = 0 /\ sink = "none" /\ ends = 0
  /\ opens = << >> /\ piping = {} /\ completed = {}

\* transform.write(chunk): the transform handler runs on the next chunk
Write ==
  /\ pc = "stream"
  /\ ~flushed
  /\ \E c \in CutOffsets(CurrentFile) :
       /\ c > pos
       /\ \E r \in {transform(headerStripped, buffer,
                               subarray(Content(CurrentFile), pos, c))} :
             /\ pos' = c
             /\ buffer' = r.buffer
             /\ headerStripped' = r.headerStripped
             /\ callbacks' = r.callbacks
             /\ IF r.error # "none"
                THEN /\ failure' = [at |-> cur, cause |-> r.error]
                     /\ pc' = "errored"
                     /\ UNCHANGED emitted
                ELSE /\ emitted' = [emitted EXCEPT ![cur] = Cat(@, r.push)]
                     /\ UNCHANGED <<failure, pc>>
  /\ UNCHANGED <<instances, clientVars, scanVars, inputFiles, validatorVars, i, sink, ends, out, opens, piping,
                 completed, cur, isFirst, isLast, flushed, err>>

\* transform.end(): the flush handler runs
End ==
  /\ pc = "stream"
  /\ ~flushed
  /\ pos = BLen(Content(CurrentFile))
  /\ \E data \in {flush(isLast, buffer)} :
        emitted' = [emitted EXCEPT ![cur] = Cat(@, data)]
  /\ buffer' = IF isLast THEN buffer ELSE StripID3v1(buffer)
  /\ flushed' = TRUE
  /\ callbacks' = flushCallbacks(isLast, buffer)
  /\ pc' = "ended"
  /\ UNCHANGED <<instances, clientVars, scanVars, inputFiles, validatorVars, i, sink, ends, out, opens, piping,
                 completed, cur, pos, isFirst, isLast, headerStripped, failure, err>>

StripperNext ==
  \/ Write
  \/ End

StripperSpec == StripperInit /\ [][StripperNext]_vars

----------------------------------------------------------------------------
(* validateAudioCompatibility on its own, over more kinds of first header   *)

MaxValidated == 3

ValidatorPaths == {"a.mp3", "b.mp3", "dir.mp3", "missing.mp3"} \cup Samples
ValidatorLists == UNION {[1 .. n -> ValidatorPaths] : n \in 0 .. MaxValidated}

ValidatorInit ==
  /\ inputFiles \in ValidatorLists
  /\ pc = "call"
  /\ fileParams = << >>
  /\ warnings = << >>
  /\ handles = 0
  /\ console = << >>
  /\ i = 0
  /\ sink = "none"
  /\ ends = 0
  /\ out = << >>
  /\ opens = << >>
  /\ piping = {}
  /\ completed = {}
  /\ cur = 0
  /\ pos = 0
  /\ isFirst = FALSE
  /\ isLast = FALSE
  /\ headerStripped = FALSE
  /\ buffer = << >>
  /\ flushed = FALSE
  /\ callbacks = 0
  /\ emitted = [j \in 0 .. (Len(inputFiles) - 1) |-> << >>]
  /\ failure = NoFailure
  /\ err = NoError
  /\ ClientIdle
  /\ PairIdle
  /\ ScanIdle

ValidatorNext ==
  \/ Call
  \/ ValidateFile
  \/ ValidateCompare
  \/ CreateOutput

ValidatorSpec == ValidatorInit /\ [][ValidatorNext]_vars

----------------------------------------------------------------------------
(* APIClient.executeWithRetry                                              *)

MaxRetries == 3

\* what fetch may throw: null, or an object with some of status, code, message
\* (status 0, code "" and message "" stand for an absent property)
Thrown(status, code, message) ==
  [nil |-> FALSE, status |-> status, code |-> code, message |-> message]

Errors ==
  {[nil |-> TRUE, status |-> 0, code |-> "", message |-> ""],
   Thrown(0, "", ""),
   Thrown(0, "", "Always fails"),
   Thrown(400, "", "Bad request"),
   Thrown(401, "", "Authentication failed"),
   Thrown(0, "", "authentication_error: invalid x-api-key"),
   Thrown(503, "", "authentication_error: invalid x-api-key"),
   Thrown(429, "", "Rate limit exceeded"),
   Thrown(0, "", "rate_limit reached"),
   Thrown(500, "", "Network error"),
   Thrown(503, "", ""),
   Thrown(0, "ECONNRESET", ""),
   Thrown(0, "ETIMEDOUT", ""),
   Thrown(0, "ENOTFOUND", ""),
   Thrown(0, "ECONNREFUSED", "")}

\* error.message?.includes(needle), for the messages above
Includes(message, needle) ==
  \/ needle = "authentication_error"
       /\ message = "authentication_error: invalid x-api-key"
  \/ needle = "rate_limit" /\ message = "rate_limit reached"

\* message || fallback
OrElse(message, fallback) == IF message = "" THEN fallback ELSE message

LLMError(message, code, retryable) ==
  [class |-> "LLMError", message |-> message, code |-> code,
   retryable |-> retryable]
LLMAuthenticationError(message) ==
  [class |-> "LLMAuthenticationError", message |-> message,
   code |-> "AUTHENTICATION_ERROR", retryable |-> FALSE]
LLMRateLimitError(message) ==
  [class |-> "LLMRateLimitError", message |-> message,
   code |-> "RATE_LIMIT_ERROR", retryable |-> TRUE]
LLMNetworkError(message) ==
  [class |-> "LLMNetworkError", message |-> message,
   code |-> "NETWORK_ERROR", retryable |-> TRUE]

\* the function createStandardErrorHandler returns
errorHandler(error) ==
  IF error.nil THEN LLMError("Unknown API error", "UNKNOWN_ERROR", FALSE)
  ELSE IF error.status = 401 \/ Includes(error.message, "authentication_error")
  THEN LLMAuthenticationError(OrElse(error.message, "Authentication failed"))
  ELSE IF error.status = 429 \/ Includes(error.message, "rate_limit")
  THEN LLMRateLimitError(OrElse(error.message, "Rate limit exceeded"))
  ELSE IF error.status >= 500 \/ error.code = "ECONNRESET"
          \/ error.code = "ETIMEDOUT"
  THEN LLMNetworkError(OrElse(error.message, "Network error"))
  ELSE IF error.code = "ENOTFOUND" \/ error.code = "ECONNREFUSED"
  THEN LLMNetworkError(OrElse(error.message, "Network connection failed"))
  ELSE LLMError(OrElse(error.message, "Unknown API error"), "UNKNOWN_ERROR",
                FALSE)

\* Math.random() * 0.1, in thousandths
Jitters == {0, 99}

RECURSIVE Pow2(_)
Pow2(n) == IF n = 0 THEN 1 ELSE 2 * Pow2(n - 1)

calculateDelay(cfg, n, jitter) ==
  LET exponentialDelay == cfg.baseDelay * Pow2(n)
      total == exponentialDelay + (jitter * exponentialDelay) \div 1000
  IN IF total < cfg.maxDelay THEN total ELSE cfg.maxDelay

\* `attempt < maxRetries`
AttemptsLeft(n, maxRetries) == n < maxRetries

\* `wrappedError instanceof LLMAuthenticationError`
IsAuthentication(wrappedError) == wrappedError.class = "LLMAuthenticationError"

\* a retry decided on the attempt number alone
ShouldRetryAnyError(wrappedError, n, maxRetries) == n < maxRetries - 1

\* a retry of every retryable error, the last attempt included
ShouldRetryWithoutLimit(wrappedError, n, maxRetries) == wrappedError.retryable

\* `wrappedError.retryable && attempt < maxRetries - 1`
ShouldRetry(wrappedError, n, maxRetries) ==
  wrappedError.retryable /\ n < maxRetries - 1

Returned(response) == [kind |-> "returned", response |-> response]
Threw(wrappedError) == [kind |-> "thrown", error |-> wrappedError]

concatVars ==
  <<inputFiles, fileParams, warnings, handles, console, i, sink, ends, out,
    opens, piping, completed, cur, pos, isFirst, isLast, headerStripped, buffer,
    flushed, emitted, failure, err, callbacks>>

ClientInit ==
  /\ \E r \in 0 .. MaxRetries :
       config = [retries |-> r, timeout |-> 30000, baseDelay |-> 1000,
                 maxDelay |-> 10000]
  /\ attempt = 0
  /\ fetchCalls = << >>
  /\ delays = << >>
  /\ settled = Pending
  /\ ScanIdle
  /\ PairIdle
  /\ pc = "fetch"
  /\ inputFiles = << >>
  /\ fileParams = << >> /\ warnings = << >> /\ handles = 0 /\ console = << >>
  /\ i = 0 /\ sink = "none" /\ ends = 0 /\ out = << >>
  /\ opens = << >> /\ piping = {} /\ completed = {}
  /\ cur = 0 /\ pos = 0 /\ isFirst = FALSE /\ isLast = FALSE
  /\ headerStripped = FALSE /\ buffer = << >> /\ flushed = FALSE
  /\ callbacks = 0
  /\ emitted = << >>
  /\ failure = NoFailure
  /\ err = NoError

\* one iteration of the loop: `return await this.fetch(request)` and, when fetch
\* throws, the catch block up to its throw or to the timer it sets
Fetch ==
  /\ pc = "fetch"
  /\ AttemptsLeft(attempt, config.retries)
  /\ \/ \E response \in {"content"} :
          /\ fetchCalls' = Append(fetchCalls, [ok |-> TRUE, response |-> response])
          /\ settled' = Returned(response)
          /\ pc' = "done"
          /\ UNCHANGED delays
     \/ \E error \in Errors :
          /\ fetchCalls' = Append(fetchCalls, [ok |-> FALSE, error |-> error])
          /\ \E wrappedError \in {errorHandler(error)} :
               IF IsAuthentication(wrappedError)
               THEN settled' = Threw(wrappedError) /\ pc' = "done"
                    /\ UNCHANGED delays
               ELSE IF ShouldRetry(wrappedError, attempt, config.retries)
               THEN /\ \E jitter \in Jitters :
                         delays' = Append(delays,
                                          calculateDelay(config, attempt, jitter))
                    /\ pc' = "sleep"
                    /\ UNCHANGED settled
               ELSE settled' = Threw(wrappedError) /\ pc' = "done"
                    /\ UNCHANGED delays
  /\ UNCHANGED <<instances, scanVars, concatVars, config, attempt>>

\* the timer of sleep fires: `continue`, attempt++
Sleep ==
  /\ pc = "sleep"
  /\ attempt' = attempt + 1
  /\ pc' = "fetch"
  /\ UNCHANGED <<instances, scanVars, concatVars, config, fetchCalls, delays, settled>>

\* the loop ends without a return or a throw:
\* `throw new LLMNetworkError('Failed to get response after all retries')`
Exhausted ==
  /\ pc = "fetch"
  /\ ~AttemptsLeft(attempt, config.retries)
  /\ settled' = Threw(LLMNetworkError("Failed to get response after all retries"))
  /\ pc' = "done"
  /\ UNCHANGED <<instances, scanVars, concatVars, config, attempt, fetchCalls, delays>>

ClientNext ==
  \/ Fetch
  \/ Sleep
  \/ Exhausted

ClientSpec == ClientInit /\ [][ClientNext]_vars

----------------------------------------------------------------------------
(* findCompleteFrames, one loop iteration at a time                        *)

MaxParts == 3

\* what a scanned buffer is made of: two frames of different length, 5 bytes
\* without a sync, a sync with bitrate index 15, an MPEG-2 header, the first
\* 50 bytes of a frame, a lone 0xFF
ScanParts ==
  {Frame(20, 17), Frame(22, 18), Run(1, 5), Header(240),
   FromBytes(<<255, 243, 20, 0>>), subarray(Frame(20, 17), 0, 50), Run(255, 1)}

ScanBuffers ==
  {CatAll(parts) : parts \in UNION {[1 .. n -> ScanParts] : n \in 0 .. MaxParts}}

\* no concatenate call is under way
ConcatIdle ==
  /\ inputFiles = << >>
  /\ fileParams = << >> /\ warnings = << >> /\ handles = 0 /\ console = << >>
  /\ i = 0 /\ sink = "none" /\ ends = 0 /\ out = << >>
  /\ opens = << >> /\ piping = {} /\ completed = {}
  /\ cur = 0 /\ pos = 0 /\ isFirst = FALSE /\ isLast = FALSE
  /\ headerStripped = FALSE /\ flushed = FALSE
  /\ callbacks = 0
  /\ emitted = << >>
  /\ failure = NoFailure
  /\ err = NoError

\* findCompleteFrames(buffer) is called: offset = 0, lastFrameEnd = 0
ScanInit ==
  /\ buffer \in ScanBuffers
  /\ pc = "scan"
  /\ ScanIdle
  /\ ClientIdle
  /\ PairIdle
  /\ ConcatIdle

\* one execution of the loop body
Iterate ==
  /\ pc = "scan"
  /\ offset < BLen(buffer)
  /\ \E r \in {ScanStep(buffer, offset, lastFrameEnd)} :
       /\ offset' = r.offset
       /\ lastFrameEnd' = r.lastFrameEnd
       /\ frameLength' = r.frameLength
       /\ recognized' = IF r.event = "frame"
                        THEN Append(recognized, [at |-> r.at, length |-> r.frameLength])
                        ELSE recognized
       /\ skipped' = IF r.event = "skipped" THEN Append(skipped, r.at)
                     ELSE skipped
       /\ pc' = IF r.break THEN "break" ELSE "scan"
  /\ UNCHANGED <<instances, clientVars, concatVars, split>>

\* the return statement with the remainder taken from the scan offset
ReturnRemainderFromOffset ==
  /\ \/ pc = "break"
     \/ pc = "scan" /\ ~(offset < BLen(buffer))
  /\ split' = [frames |-> subarray(buffer, 0, lastFrameEnd),
               remainder |-> subarray(buffer, offset, BLen(buffer)),
               returned |-> TRUE]
  /\ pc' = "returned"
  /\ UNCHANGED <<instances, clientVars, concatVars, offset, lastFrameEnd, frameLength,
                 recognized, skipped>>

\* the loop is left; `return { frames, remainder }`
Return ==
  /\ \/ pc = "break"
     \/ pc = "scan" /\ ~(offset < BLen(buffer))
  /\ split' = [frames |-> subarray(buffer, 0, lastFrameEnd),
               remainder |-> subarray(buffer, lastFrameEnd, BLen(buffer)),
               returned |-> TRUE]
  /\ pc' = "returned"
  /\ UNCHANGED <<instances, clientVars, concatVars, offset, lastFrameEnd, frameLength,
                 recognized, skipped>>

ScanNext ==
  \/ Iterate
  \/ Return

ScanSpec == ScanInit /\ [][ScanNext]_vars

\* the function runs to completion once called: synchronous code, no await
ScanFairSpec == ScanSpec /\ WF_vars(ScanNext)

----------------------------------------------------------------------------
(* getMp3FrameLength on one header                                         *)

\* the second header bytes tried: MPEG-1 Layer III with and without CRC,
\* MPEG-2 Layer III, MPEG-1 Layer II, MPEG-2.5 Layer III, all bits set, and a
\* byte that has the MPEG-1 Layer III bits but not the sync bits
SecondBytes == {251, 250, 243, 253, 227, 255, 27}

\* two bytes, then a header FF b1 b2 00
HeaderBuffers ==
  {Cat(Run(1, 2), FromBytes(<<255, b1, b2, 0>>)) :
     b1 \in SecondBytes, b2 \in 0 .. 255}

\* getMp3FrameLength(buffer, offset) is called: at the header, before it, and
\* where fewer than 4 bytes are left
CodecInit ==
  /\ buffer \in HeaderBuffers
  /\ offset \in {0, 2, 3}
  /\ lastFrameEnd = 0
  /\ frameLength = 0
  /\ recognized = << >>
  /\ skipped = << >>
  /\ split = NoSplit
  /\ pc = "measure"
  /\ ClientIdle
  /\ PairIdle
  /\ ConcatIdle

Measure ==
  /\ pc = "measure"
  /\ frameLength' = getMp3FrameLength(buffer, offset)
  /\ pc' = "measured"
  /\ UNCHANGED <<instances, clientVars, concatVars, offset, lastFrameEnd, recognized,
                 skipped, split>>

CodecNext == Measure

CodecSpec == CodecInit /\ [][CodecNext]_vars

----------------------------------------------------------------------------
(* Tag Strippers side by side                                              *)
(* createStripperTransform is called once per stream; the streams of two   *)
(* concatenate calls on one AudioDataTransformer interleave chunk by chunk. *)

\* the first stripper is written id3.mp3, the second one of these
PairFiles == {"id3.mp3", "tag.mp3"}

\* `let headerStripped = isFirst; let buffer = Buffer.alloc(0);` with the
\* parameters: what the handlers of one Transform close over
createStripperTransform(first, last) ==
  [isFirst |-> first, isLast |-> last,
   headerStripped |-> InitialHeaderStripped(first), buffer |-> << >>]

\* a stripper fed file f, and the reference run of the same stripper on its
\* own: `alone` is advanced by the same chunks and by nothing else
Instance(f, first, last) ==
  [file |-> f, closure |-> createStripperTransform(first, last), pos |-> 0,
   chunks |-> 0, emitted |-> << >>, state |-> "open",
   alone |-> [closure |-> createStripperTransform(first, last),
              emitted |-> << >>, state |-> "open"]]

\* the handlers of every instance reading the variables of the first one
ClosureOfFirst(insts, k) == insts[1].closure

\* the variables the handlers of instance k read and write: those of its own
\* createStripperTransform call
Closure(insts, k) == insts[k].closure

\* a run of the transform handler on closure c with the chunk: the new closure,
\* what was emitted so far and whether the stream is still open
Handled(c, sofar, chunk) ==
  Let(transform(c.headerStripped, c.buffer, chunk), LAMBDA r :
    [closure |-> [c EXCEPT !.headerStripped = r.headerStripped,
                           !.buffer = r.buffer],
     emitted |-> IF r.error = "none" THEN Cat(sofar, r.push) ELSE sofar,
     state |-> IF r.error = "none" THEN "open" ELSE "errored"])

\* a run of the flush handler on closure c
Flushed(c, sofar) ==
  [closure |-> [c EXCEPT !.buffer = IF c.isLast THEN c.buffer
                                    ELSE StripID3v1(c.buffer)],
   emitted |-> Cat(sofar, flush(c.isLast, c.buffer)),
   state |-> "ended"]

ConcatQuiet ==
  /\ inputFiles = << >>
  /\ fileParams = << >> /\ warnings = << >> /\ handles = 0 /\ console = << >>
  /\ i = 0 /\ sink = "none" /\ ends = 0 /\ out = << >>
  /\ opens = << >> /\ piping = {} /\ completed = {}
  /\ cur = 0 /\ pos = 0 /\ isFirst = FALSE /\ isLast = FALSE
  /\ headerStripped = FALSE /\ flushed = FALSE /\ buffer = << >>
  /\ emitted = << >>
  /\ failure = NoFailure
  /\ err = NoError
  /\ callbacks = 0

\* two strippers exist, with any parameters: of the same file or of two files
PairInit ==
  /\ \E f2 \in PairFiles,
        first1 \in BOOLEAN, last1 \in BOOLEAN,
        first2 \in BOOLEAN, last2 \in BOOLEAN :
       instances = << Instance("id3.mp3", first1, last1),
                      Instance(f2, first2, last2) >>
  /\ pc = "pair"
  /\ ConcatQuiet
  /\ ClientIdle
  /\ ScanIdle

\* instance k is written its next chunk
WriteTo(k) ==
  /\ pc = "pair"
  /\ instances[k].state = "open"
  /\ \E c \in CutOffsets(instances[k].file) :
       /\ c > instances[k].pos
       /\ \E chunk \in {subarray(Content(instances[k].file), instances[k].pos, c)} :
            \E r \in {Handled(Closure(instances, k), instances[k].emitted, chunk)} :
              \E a \in {Handled(instances[k].alone.closure,
                                instances[k].alone.emitted, chunk)} :
                instances' =
                  [instances EXCEPT ![k] =
                     [@ EXCEPT !.pos = c, !.chunks = @ + 1,
                               !.closure = r.closure, !.emitted = r.emitted,
                               !.state = r.state, !.alone = a]]
  /\ UNCHANGED <<clientVars, scanVars, concatVars, pc>>

\* the input of instance k ends
EndOf(k) ==
  /\ pc = "pair"
  /\ instances[k].state = "open"
  /\ instances[k].pos = BLen(Content(instances[k].file))
  /\ \E r \in {Flushed(Closure(instances, k), instances[k].emitted)} :
       \E a \in {Flushed(instances[k].alone.closure, instances[k].alone.emitted)} :
         instances' =
           [instances EXCEPT ![k] =
              [@ EXCEPT !.closure = r.closure, !.emitted = r.emitted,
                        !.state = r.state, !.alone = a]]
  /\ UNCHANGED <<clientVars, scanVars, concatVars, pc>>

PairNext ==
  \E k \in DOMAIN instances :
    \/ WriteTo(k)
    \/ EndOf(k)

PairSpec == PairInit /\ [][PairNext]_vars

\* two strippers with the same parameters, to be written the same bytes
RerunInit ==
  /\ \E f \in Streams, first \in BOOLEAN, last \in BOOLEAN :
       instances = << Instance(f, first, last), Instance(f, first, last) >>
  /\ pc = "pair"
  /\ ConcatQuiet
  /\ ClientIdle
  /\ ScanIdle

\* the second stripper is written the bytes once the first has ended
RerunNext ==
  \/ WriteTo(1)
  \/ EndOf(1)
  \/ instances[1].state = "ended" /\ WriteTo(2)
  \/ instances[1].state = "ended" /\ EndOf(2)

RerunSpec == RerunInit /\ [][RerunNext]_vars

----------------------------------------------------------------------------
(* The whole call                                                          *)

Next ==
  \/ Call
  \/ ValidateFile
  \/ ValidateCompare
  \/ CreateOutput
  \/ OpenInput
  \/ Transform
  \/ Flush
  \/ PipelineDone
  \/ ReadError
  \/ SinkError
  \/ EndOutput
  \/ SinkFinish
  \/ SinkCloseError

Spec == Init /\ [][Next]_vars

\* the steps of the call after the validator's reads, the stream events first
Scheduled ==
  \/ ReadError
  \/ SinkError
  \/ Call
  \/ ValidateCompare
  \/ CreateOutput
  \/ OpenInput
  \/ Transform
  \/ Flush
  \/ PipelineDone
  \/ EndOutput
  \/ SinkFinish
  \/ SinkCloseError

\* the validator's read loop has a file left to read: ValidateFile can run
ReadPending == pc = "validate" /\ Len(fileParams) < N

\* the call under the proviso that the environment keeps going: every input
\* stream eventually delivers, ends or errors, the sink eventually emits
\* 'finish' or 'error' once ended, the validator's open/read/close settle, and
\* the event loop runs what is ready (weak fairness of every step; for
\* ValidateFile it is written out with ReadPending as its enabling condition)
LiveSpec ==
  /\ Spec
  /\ WF_vars(Scheduled)
  /\ ([]<>~ReadPending \/ []<><<ValidateFile>>_vars)

----------------------------------------------------------------------------
(* Properties of concatenate                                               *)

\* what the Tag Strippers of the inputs 0 .. N-1 emitted, in input-list order
EmittedInOrder == [j \in 1 .. N |-> emitted[j - 1]]

\* C1: after a successful concatenate the bytes written to the output sink are
\* the concatenation, in input-list order, of what each input's own Tag Stripper
\* emitted: every byte of input i precedes every byte of input j for i < j.
C1_OutputIsEmissionsInInputOrder ==
  pc = "resolved" => out = CatAll(EmittedInOrder)

\* two inputs with different content were concatenated successfully
C1_Witness ==
  /\ pc = "resolved"
  /\ inputFiles = <<"a.mp3", "b.mp3">>
  /\ emitted[0] = Content("a.mp3")
  /\ emitted[1] = Content("b.mp3")
  /\ out = Cat(Content("a.mp3"), Content("b.mp3"))

\* C2: the inputs are processed strictly sequentially and without retries: at
\* most one input stream is piped into the sink at any moment, the k-th open is
\* that of input k-1 (so no input is opened twice), and an input is opened only
\* when the pipelines of all inputs before it have resolved.
C2_SequentialNoRetry ==
  /\ Cardinality(piping) <= 1
  /\ \A k \in 1 .. Len(opens) : opens[k] = k - 1
  /\ \A k \in 1 .. Len(opens) : \A j \in 0 .. (opens[k] - 1) : j \in completed
  /\ \A j \in piping : j = opens[Len(opens)] /\ j \notin completed

\* the third input is being piped after the first two completed
C2_Witness ==
  /\ pc = "await"
  /\ opens = <<0, 1, 2>>
  /\ piping = {2}
  /\ completed = {0, 1}
  /\ pos > 0

\* C3: the output sink is never ended between files: end() is called at most
\* once, only after the pipeline of every input has resolved, and concatenate
\* resolves only once the sink has emitted 'finish' after that single end().
C3_SinkEndedOnceAfterLast ==
  /\ ends <= 1
  /\ ends = 1 => completed = 0 .. (N - 1) /\ piping = {}
  /\ sink \in {"ending", "finished"} => ends = 1
  /\ pc = "await" => sink \in {"open", "errored"}
  /\ pc = "resolved" => sink = "finished" /\ ends = 1

\* a call with three inputs resolved
C3_Witness ==
  /\ pc = "resolved"
  /\ N = 3
  /\ completed = {0, 1, 2}
  /\ ends = 1
  /\ sink = "finished"

\* C4: when the processing of input i (0-based) of n fails (read failure, Tag
\* Stripper error or sink failure), concatenate rejects with an error naming the
\* path of that input and the position i+1 of n, no input after i has been
\* opened, and the call does not resolve.
C4_FailureNamesFileAndPosition ==
  failure # NoFailure =>
    /\ pc = "rejected"
    /\ err.kind = "process"
    /\ err.file = inputFiles[failure.at + 1]
    /\ err.position = failure.at + 1
    /\ err.total = N
    /\ err.cause = failure.cause
    /\ \A k \in 1 .. Len(opens) : opens[k] <= failure.at
    /\ ends = 0

\* the Tag Stripper of the second of three inputs failed on the tag size
C4_Witness ==
  /\ failure = [at |-> 1, cause |-> "tagsize"]
  /\ N = 3
  /\ inputFiles[2] = "bigtag.mp3"
  /\ err.position = 2
  /\ pc = "rejected"

\* C5: concatenate of an empty list opens no input, runs no validation, creates
\* the output sink and ends it, writes nothing, and resolves once the sink has
\* finished; it rejects only when the sink itself fails to close.
C5_EmptyListSucceeds ==
  inputFiles = << >> =>
    /\ opens = << >>
    /\ pc \notin {"validate", "await"}
    /\ fileParams = << >> /\ handles = 0 /\ console = << >>
    /\ out = << >>
    /\ failure = NoFailure
    /\ pc \in {"loop", "finishing", "resolved", "rejected"} => sink # "none"
    /\ pc \in {"finishing", "resolved", "rejected"} => ends = 1
    /\ pc = "resolved" => sink = "finished" /\ BLen(out) = 0
    /\ pc = "rejected" => sink = "errored" /\ err.kind = "output"

\* the call with the empty list resolved
C5_Witness ==
  /\ inputFiles = << >>
  /\ pc = "resolved"
  /\ sink = "finished"
  /\ ends = 1
  /\ BLen(out) = 0

----------------------------------------------------------------------------
(* Properties of the Tag Stripper                                          *)

\* the files that begin with an ID3v2 header
StartsWithId3v2 == {f \in Streams : HasBytesAt(Content(f), 0, ID3v2)}

\* the files that end with a 128-byte block beginning 'TAG', and that block
EndsWithId3v1 ==
  {f \in Streams : /\ BLen(Content(f)) >= 128
                   /\ HasBytesAt(Content(f), BLen(Content(f)) - 128, ID3v1)}
TrailingBlock(buf) == subarray(buf, BLen(buf) - 128, BLen(buf))

\* C6: on success the output carries no ID3v2 tag of any segment, the first
\* included: for N >= 2 inputs that each begin with an ID3v2 header the output
\* does not begin with the 'ID3' magic.
C6_OutputNeverStartsWithId3 ==
  (/\ pc = "resolved"
   /\ N >= 2
   /\ \A k \in 1 .. N : inputFiles[k] \in StartsWithId3v2)
  => ~HasBytesAt(out, 0, ID3v2)

\* the declared tag length of a file that begins with an ID3v2 header: size + 10
DeclaredTagSize(f) == SynchsafeSize(Content(f)) + 10

\* C7: a Tag Stripper with isFirst = FALSE reading a file that begins with 'ID3'
\* and declares size + 10 <= MAX_ID3V2_TAG_SIZE bytes of tag has emitted nothing
\* and still awaits the header decision while fewer than size + 10 bytes have
\* arrived, whatever the chunks were; from then on the bytes it has emitted and
\* the bytes it holds are together the bytes received less exactly the first
\* size + 10.
C7_TagDroppedOnceComplete ==
  (/\ pc = "await"
   /\ ~isFirst
   /\ ~flushed
   /\ failure = NoFailure
   /\ CurrentFile \in StartsWithId3v2
   /\ DeclaredTagSize(CurrentFile) <= MAX_ID3V2_TAG_SIZE)
  => IF pos < DeclaredTagSize(CurrentFile)
     THEN /\ emitted[cur] = << >>
          /\ ~headerStripped
          /\ buffer = subarray(Content(CurrentFile), 0, pos)
     ELSE /\ headerStripped
          /\ Cat(emitted[cur], buffer)
               = subarray(Content(CurrentFile), DeclaredTagSize(CurrentFile), pos)

\* a non-first stripper that waited for a 310-byte tag has dropped the
\* tag and holds the first two bytes of the audio
C7_Witness ==
  /\ pc = "await"
  /\ cur = 1
  /\ CurrentFile = "id3.mp3"
  /\ DeclaredTagSize(CurrentFile) = 310
  /\ pos = 312
  /\ headerStripped
  /\ emitted[cur] = << >>
  /\ buffer = FromBytes(<<255, 251>>)

\* C8: when only the last of the inputs ends with a 128-byte block beginning
\* 'TAG', the last 128 bytes of the output of a successful call are that block,
\* and the flush of a Tag Stripper with isLast = TRUE emitted its buffer as it
\* was, trailing tag included.
C8_LastTagPreserved ==
  /\ (/\ pc = "resolved"
      /\ N >= 1
      /\ inputFiles[N] \in EndsWithId3v1
      /\ \A k \in 1 .. (N - 1) : inputFiles[k] \notin EndsWithId3v1)
     => TrailingBlock(out) = TrailingBlock(Content(inputFiles[N]))
  /\ (pc = "await" /\ flushed /\ isLast)
     => subarray(emitted[cur], BLen(emitted[cur]) - BLen(buffer),
                 BLen(emitted[cur])) = buffer

\* two inputs, the tag on the last: the output ends with the tag
C8_Witness ==
  /\ pc = "resolved"
  /\ inputFiles = <<"a.mp3", "tag.mp3">>
  /\ TrailingBlock(out) = Id3v1Tag
  /\ BLen(out) = BLen(Content("a.mp3")) + BLen(Content("tag.mp3"))

\* what a non-first stripper drops at the head of file f
LeadingTag(j, f) ==
  IF j > 0 /\ f \in StartsWithId3v2 THEN DeclaredTagSize(f) ELSE 0

\* C9: of a non-final input that ends with a 128-byte block beginning 'TAG',
\* exactly that block is removed: what its Tag Stripper emitted is the file
\* without the block (and without the leading tag it strips).
C9_NonFinalTagRemoved ==
  \A j \in completed :
    (j < N - 1 /\ inputFiles[j + 1] \in EndsWithId3v1)
    => emitted[j] = subarray(Content(inputFiles[j + 1]),
                             LeadingTag(j, inputFiles[j + 1]),
                             BLen(Content(inputFiles[j + 1])) - 128)

\* buf read as back-to-back frames from start on: the frames, and whether
\* every byte belongs to one
RECURSIVE SplitFrames(_, _)
SplitFrames(buf, start) ==
  IF start >= BLen(buf) THEN [ok |-> TRUE, frames |-> << >>]
  ELSE Let(getMp3FrameLength(buf, start), LAMBDA n :
         IF /\ At(buf, start) = 255
            /\ At(buf, start + 1) \div 32 = 7
            /\ n > 0
            /\ start + n <= BLen(buf)
         THEN Let(SplitFrames(buf, start + n), LAMBDA r :
                [ok |-> r.ok,
                 frames |-> << subarray(buf, start, start + n) >> \o r.frames])
         ELSE [ok |-> FALSE, frames |-> << >>])

\* the files made of back-to-back frames and nothing else
FrameOnly ==
  {f \in Regular : /\ Parts(f) # << >>
                   /\ SplitFrames(Content(f), 0) = [ok |-> TRUE, frames |-> Parts(f)]}

\* the frames of the files of a list, in list order
RECURSIVE SourceFrames(_)
SourceFrames(files) ==
  IF files = << >> THEN << >>
  ELSE Parts(files[1]) \o SourceFrames(Tail(files))

\* C10: when every input consists of K_i back-to-back MPEG-1 Layer III frames
\* and no tags, the output of a successful call consists of exactly sum(K_i)
\* frames, each equal to its source frame, in input order, however the inputs
\* were cut into chunks.
C10_FrameConservation ==
  (pc = "resolved" /\ \A k \in 1 .. N : inputFiles[k] \in FrameOnly)
  => /\ SplitFrames(out, 0).ok
     /\ SplitFrames(out, 0).frames = SourceFrames(inputFiles)
     /\ Len(SplitFrames(out, 0).frames) = Len(SourceFrames(inputFiles))

\* three frame-only inputs of 2 + 1 + 2 frames gave five frames
C10_Witness ==
  /\ pc = "resolved"
  /\ inputFiles = <<"a.mp3", "b.mp3", "a.mp3">>
  /\ Len(SplitFrames(out, 0).frames) = 5
  /\ SplitFrames(out, 0).frames = Parts("a.mp3") \o Parts("b.mp3") \o Parts("a.mp3")

\* C11: concatenating a single input that carries no ID3v2 tag gives an output
\* equal byte for byte to the input, a trailing ID3v1 tag included, however the
\* input was cut into chunks.
C11_SingleInputIdentity ==
  (/\ pc = "resolved"
   /\ N = 1
   /\ inputFiles[1] \notin StartsWithId3v2)
  => out = Content(inputFiles[1])

\* a single input with a trailing ID3v1 tag came out whole
C11_Witness ==
  /\ pc = "resolved"
  /\ inputFiles = <<"tag.mp3">>
  /\ isFirst /\ isLast
  /\ out = Cat(Frame(20, 65), Id3v1Tag)

----------------------------------------------------------------------------
(* Properties of one Tag Stripper written to directly (StripperSpec)       *)

\* the bytes written to the stripper so far, and what it has emitted
Received == subarray(Content(CurrentFile), 0, pos)
Emitted == emitted[cur]

\* the data a step handed to its callback
Pushed == subarray(emitted'[cur], BLen(emitted[cur]), BLen(emitted'[cur]))

\* C12: a transform call whose chunk makes the buffer longer than
\* MAX_BUFFER_SIZE, in whatever state the stripper is, fails with the overflow
\* error and emits nothing; a first chunk longer than MAX_BUFFER_SIZE gives the
\* error and no output at all.
C12_OverflowFailsWithoutOutput ==
  [][(/\ pc = "stream"
      /\ pos' > pos
      /\ BLen(buffer) + (pos' - pos) > MAX_BUFFER_SIZE)
     => /\ pc' = "errored"
        /\ failure'.cause = "overflow"
        /\ emitted' = emitted]_vars

\* the first chunk was one byte longer than MAX_BUFFER_SIZE
C12_Witness ==
  /\ pc = "errored"
  /\ CurrentFile = "huge.bin"
  /\ failure.cause = "overflow"
  /\ BLen(buffer) = MAX_BUFFER_SIZE + 1
  /\ pos = MAX_BUFFER_SIZE + 1
  /\ Emitted = << >>

\* C13: a stripper with isFirst = FALSE that holds at least 10 bytes beginning
\* 'ID3' whose size + 10 exceeds MAX_ID3V2_TAG_SIZE has failed with the tag size
\* error, has emitted nothing and has dropped nothing: the tag was not taken as
\* recognized.
C13_OversizeTagFails ==
  (/\ pc \in {"stream", "errored", "ended"}
   /\ ~isFirst
   /\ pos >= 10
   /\ CurrentFile \in StartsWithId3v2
   /\ DeclaredTagSize(CurrentFile) > MAX_ID3V2_TAG_SIZE)
  => /\ pc = "errored"
     /\ failure.cause = "tagsize"
     /\ Emitted = << >>
     /\ ~headerStripped
     /\ buffer = Received

\* the header declaring MAX_ID3V2_TAG_SIZE + 1 bytes in total was refused
C13_Witness ==
  /\ pc = "errored"
  /\ CurrentFile = "tagover.bin"
  /\ DeclaredTagSize(CurrentFile) = MAX_ID3V2_TAG_SIZE + 1
  /\ failure.cause = "tagsize"
  /\ pos = 10
  /\ ~isFirst

Min(a, b) == IF a < b THEN a ELSE b

\* e from offset m on is a subsequence of s from offset n on (the earliest match,
\* taken a run at a time)
RECURSIVE SubsequenceFrom(_, _, _, _)
SubsequenceFrom(e, m, s, n) ==
  IF m >= BLen(e) THEN TRUE
  ELSE IF n >= BLen(s) THEN FALSE
  ELSE IF At(e, m) = At(s, n)
       THEN Let(Min(RunEnd(e, m) - m, RunEnd(s, n) - n), LAMBDA k :
              SubsequenceFrom(e, m + k, s, n + k))
  ELSE SubsequenceFrom(e, m, s, RunEnd(s, n))

\* C14: whatever the chunks and whatever isFirst and isLast, the bytes a Tag
\* Stripper has emitted (transform outputs, then the flush output) are an
\* in-order subsequence of the bytes written to it: none twice, none swapped.
C14_EmittedIsSubsequence ==
  pc \in {"stream", "errored", "ended"}
  => /\ BLen(Emitted) <= BLen(Received)
     /\ SubsequenceFrom(Emitted, 0, Received, 0)

\* a middle stripper dropped the leading tag and emitted the frame after it
C14_Witness ==
  /\ pc = "ended"
  /\ CurrentFile = "id3.mp3"
  /\ ~isFirst /\ ~isLast
  /\ Emitted = Frame(20, 49)
  /\ BLen(Received) = 310 + BLen(Emitted)

\* the leading ID3v2 tag the stripper recognizes in stream s: complete and
\* within the limit, for a stripper that looks for one
RecognizedLead(s) ==
  IF /\ ~isFirst
     /\ s \in StartsWithId3v2
     /\ DeclaredTagSize(s) <= MAX_ID3V2_TAG_SIZE
     /\ DeclaredTagSize(s) <= BLen(Content(s))
  THEN DeclaredTagSize(s) ELSE 0

\* the trailing ID3v1 tag a non-last stripper may strip
TrailingTag(s) == IF ~isLast /\ s \in EndsWithId3v1 THEN 128 ELSE 0

SyncCandidates(buf) ==
  UNION {(IF k = 1 THEN 0 ELSE buf[k - 1][2]) .. (buf[k][2] - 1) :
           k \in {n \in 1 .. Len(buf) : buf[n][1] = 255}}

\* buf ends exactly where a recognized frame that starts in it ends
EndsAtFrameEnd(buf) ==
  \E s \in SyncCandidates(buf) :
    /\ s + 4 <= BLen(buf)
    /\ At(buf, s + 1) \div 32 = 7
    /\ getMp3FrameLength(buf, s) > 0
    /\ s + getMp3FrameLength(buf, s) = BLen(buf)

\* what was emitted and what is held are together the input from offset 0 or
\* from the end of the leading tag on
EmissionsContiguous ==
  \E a \in {0, RecognizedLead(CurrentFile)} :
    Cat(emitted'[cur], buffer') = subarray(Content(CurrentFile), a, pos')

\* C16 as stated: every chunk a transform call emits ends exactly at the end of a
\* recognized complete frame and begins where the previous emission ended.
C16_OnlyCompleteFrames ==
  [][(pc = "stream" /\ ~flushed' /\ emitted' # emitted)
     => EndsAtFrameEnd(Pushed) /\ EmissionsContiguous]_vars

\* C16 amended: every chunk a transform call emits begins where the previous
\* emission ended and ends exactly at the end of a recognized complete frame,
\* unless it is the best-effort slice: the first PROCESSING_CHUNK_SIZE bytes of a
\* buffer longer than 2 * PROCESSING_CHUNK_SIZE that holds no complete frame;
\* the bytes after the emitted chunk stay in the buffer.
C16_CompleteFramesOrBestEffort ==
  [][(pc = "stream" /\ ~flushed' /\ emitted' # emitted)
     => /\ EmissionsContiguous
        /\ \/ EndsAtFrameEnd(Pushed)
           \/ /\ BLen(Pushed) = PROCESSING_CHUNK_SIZE
              /\ BLen(Pushed) + BLen(buffer') > 2 * PROCESSING_CHUNK_SIZE
              /\ FrameScan(Cat(Pushed, buffer'), 0, 0) = 0]_vars

\* a frame was emitted and the first 10 bytes of the next one are held back
C16_Witness ==
  /\ pc = "stream"
  /\ CurrentFile = "a.mp3"
  /\ pos = 106
  /\ Emitted = Frame(20, 17)
  /\ buffer = subarray(Frame(22, 18), 0, 10)

----------------------------------------------------------------------------
(* Properties of the compatibility check inside concatenate (Spec)         *)

\* C17: with fewer than two inputs the validator is skipped entirely: it opens
\* no file, records nothing and no warning is logged.
C17_NoValidationBelowTwoInputs ==
  N < 2 => /\ pc # "validate"
           /\ fileParams = << >>
           /\ warnings = << >>
           /\ console = << >>
           /\ handles = 0

\* a single input went through the whole pipeline without a validation step
C17_Witness ==
  /\ pc = "resolved"
  /\ inputFiles = << "a.mp3" >>
  /\ console = << >>
  /\ handles = 0
  /\ out = Content("a.mp3")

\* C18: the compatibility check is advisory. concatenate never rejects because
\* of a finding: nothing fails before the sink is opened; whatever the validator
\* returned, the next step logs the findings, opens the sink and enters the
\* loop; every rejection is a processing error of some input or a sink error,
\* and a call that resolves has processed every input.
C18_ValidationIsAdvisory ==
  /\ [](/\ pc \in {"call", "validate", "validated"}
            => err = NoError /\ failure = NoFailure /\ sink = "none"
        /\ pc \notin {"call", "validate", "validated"} => sink # "none"
        /\ pc = "rejected" => err.kind \in {"process", "output"}
        /\ pc = "resolved" => completed = 0 .. N - 1)
  /\ [][pc = "validated"
          => /\ pc' = "loop"
             /\ sink' = "open"
             /\ console' = console \o warnings
             /\ err' = NoError]_vars

\* two inputs of different sample rate and bitrate were concatenated all the
\* same, the two findings logged
C18_Witness ==
  /\ pc = "resolved"
  /\ inputFiles = << "a.mp3", "b.mp3" >>
  /\ Len(console) = 2
  /\ console[1].type = "sampleRate"
  /\ console[2].type = "bitrate"
  /\ out = Cat(Content("a.mp3"), Content("b.mp3"))

----------------------------------------------------------------------------
(* Properties of validateAudioCompatibility (ValidatorSpec)                *)

\* the validator has gone through its read loop and returned
Validated == pc = "validated" /\ ~SkipsValidation(N)

\* a warning of the read loop that names file f
NamesFile(w, f) == w.type \in {"unreadable", "noFrame"} /\ w.file = f

\* C19: every input whose validation read or first-frame parse fails (open or
\* read error, no sync in the prefix, or a first sync whose bitrate or sample
\* rate index is invalid) has a record with valid = FALSE and a warning that
\* names the file.
C19_InvalidFilesAreWarned ==
  Validated =>
    \A k \in 1 .. N :
      ~fileParams[k].valid
        => \E j \in 1 .. Len(warnings) : NamesFile(warnings[j], inputFiles[k])

IsMismatch(w) == w.type \in {"sampleRate", "bitrate", "versionLayer"}

\* the differences the consistency check reports between a file and the
\* reference file, in the order it tests them
Differences(p, ref) ==
  (IF p.sampleRate # ref.sampleRate
   THEN << [type |-> "sampleRate", ref |-> ref.sampleRate, value |-> p.sampleRate] >>
   ELSE << >>)
  \o (IF p.bitrate - ref.bitrate > BitrateThreshold
         \/ ref.bitrate - p.bitrate > BitrateThreshold
      THEN << [type |-> "bitrate", ref |-> ref.bitrate, value |-> p.bitrate] >>
      ELSE << >>)
  \o (IF p.version # ref.version \/ p.layer # ref.layer
      THEN << [type |-> "versionLayer"] >>
      ELSE << >>)

ValidIndexes == {k \in 1 .. Len(fileParams) : fileParams[k].valid}
FirstValid == CHOOSE k \in ValidIndexes : \A m \in ValidIndexes : k <= m

\* the differences of the valid files after the first valid one, from file k on
RECURSIVE ExpectedFrom(_)
ExpectedFrom(k) ==
  IF k > Len(fileParams) THEN << >>
  ELSE (IF k \in ValidIndexes /\ k > FirstValid
        THEN Differences(fileParams[k], fileParams[FirstValid])
        ELSE << >>) \o ExpectedFrom(k + 1)

\* a mismatch warning without its file numbers
Finding(w) ==
  IF w.type = "versionLayer" THEN [type |-> w.type]
  ELSE [type |-> w.type, ref |-> w.ref, value |-> w.value]

Findings(ws) == [j \in 1 .. Len(ws) |-> Finding(ws[j])]

\* C20: the validator compares every valid file after the first valid one to
\* the first valid file and returns, file by file, one warning for each of:
\* sample rate differs, bitrates differ by more than 64, version or layer
\* differs; when all files are valid, the returned list is empty exactly when no
\* file differs from the first in one of these ways.
C20_ComparedToFirstValid ==
  Validated =>
    /\ Findings(SelectSeq(warnings, IsMismatch)) = ExpectedFrom(1)
    /\ ValidIndexes = 1 .. N
         => (warnings = << >>
               <=> \A k \in 2 .. N :
                     Differences(fileParams[k], fileParams[1]) = << >>)

\* the third file is compared to the first (80 kbit/s apart), not to the second
\* (16 kbit/s apart); the second is 64 kbit/s from the first and is not reported
C20_Witness ==
  /\ Validated
  /\ inputFiles = << "a.mp3", "k96.mp3", "k112.mp3" >>
  /\ fileParams[2].bitrate - fileParams[1].bitrate = BitrateThreshold
  /\ Findings(warnings)
       = << [type |-> "bitrate", ref |-> 32, value |-> 112] >>

----------------------------------------------------------------------------
(* Closing the sink (Spec)                                                 *)

\* C21: when the sink fails after end(), all inputs having been processed,
\* concatenate rejects with the error that names the output path, which is not
\* the per-file processing error, and the promise is not resolved.
C21_CloseFailureNamesOutput ==
  (ends > 0 /\ sink = "errored")
  => /\ pc = "rejected"
     /\ err.kind = "output"
     /\ err.outputFile = outputFile
     /\ failure = NoFailure
     /\ completed = 0 .. N - 1

\* both inputs were written, then the sink failed to close
C21_Witness ==
  /\ pc = "rejected"
  /\ inputFiles = << "a.mp3", "tag.mp3" >>
  /\ ends = 1
  /\ sink = "errored"
  /\ err = OutputError("sink")
  /\ out = Cat(Content("a.mp3"), Content("tag.mp3"))

----------------------------------------------------------------------------
(* Properties of APIClient.executeWithRetry (ClientSpec)                   *)

Failed(call) == ~call.ok
FailedRetryably(call) == ~call.ok /\ errorHandler(call.error).retryable

\* C22: executeWithRetry calls fetch at most config.retries times; when every
\* attempt fails with a retryable error it has called fetch exactly
\* config.retries times when it throws, and what it throws is the wrapped error
\* of the last attempt; a successful attempt is the last call and its result is
\* returned.
C22_AtMostRetriesFetches ==
  /\ Len(fetchCalls) <= config.retries
  /\ \A k \in 1 .. Len(fetchCalls) - 1 : Failed(fetchCalls[k])
  /\ \A k \in 1 .. Len(fetchCalls) :
       fetchCalls[k].ok => settled = Returned(fetchCalls[k].response)
  /\ (/\ pc = "done"
      /\ fetchCalls # << >>
      /\ \A k \in 1 .. Len(fetchCalls) : FailedRetryably(fetchCalls[k]))
     => /\ Len(fetchCalls) = config.retries
        /\ settled = Threw(errorHandler(fetchCalls[Len(fetchCalls)].error))

\* three attempts failed with a rate limit, a 503 and a connection reset
C22_Witness ==
  /\ pc = "done"
  /\ config.retries = 3
  /\ Len(fetchCalls) = 3
  /\ \A k \in 1 .. 3 : Failed(fetchCalls[k])
  /\ fetchCalls[1].error.status = 429
  /\ fetchCalls[2].error.status = 503
  /\ fetchCalls[3].error.code = "ECONNRESET"
  /\ Len(delays) = 2
  /\ settled = Threw(LLMNetworkError("Network error"))

\* C23: an attempt that fails with an authentication error, or with any error
\* the handler maps to a non-retryable LLMError, is the last one: the wrapped
\* error is thrown at once, without a delay and without another fetch call.
C23_NoRetryOfNonRetryable ==
  \A k \in 1 .. Len(fetchCalls) :
    (/\ Failed(fetchCalls[k])
     /\ \/ fetchCalls[k].error.status = 401
        \/ ~errorHandler(fetchCalls[k].error).retryable)
    => /\ k = Len(fetchCalls)
       /\ pc = "done"
       /\ settled = Threw(errorHandler(fetchCalls[k].error))
       /\ Len(delays) = k - 1

\* the second attempt met a 401 after a rate limit: one delay, two calls
C23_Witness ==
  /\ pc = "done"
  /\ config.retries = 3
  /\ Len(fetchCalls) = 2
  /\ \A k \in 1 .. 2 : Failed(fetchCalls[k])
  /\ fetchCalls[1].error.status = 429
  /\ fetchCalls[2].error.status = 401
  /\ Len(delays) = 1
  /\ settled = Threw(LLMAuthenticationError("Authentication failed"))

----------------------------------------------------------------------------
(* More properties of one Tag Stripper (StripperSpec)                      *)

\* C24: a stripper built with isFirst = TRUE is in Streaming from the start and
\* never looks for an ID3v2 tag: what it has emitted and what it holds are
\* together the bytes received, it holds no complete frame back, and what it
\* emits in all begins with the first byte of its input, also when the input
\* begins with 'ID3'. A stripper built with isFirst = FALSE starts with the
\* header decision open, and until 10 bytes are buffered its transform calls
\* emit nothing and keep everything.
C24_FirstStripperStartsStreaming ==
  /\ isFirst
       => /\ headerStripped
          /\ pc \in {"stream", "errored"} => Cat(Emitted, buffer) = Received
          /\ pc = "stream" => BLen(findCompleteFrames(buffer).frames) = 0
          /\ pc = "ended" => Emitted = subarray(Received, 0, BLen(Emitted))
  /\ (~isFirst /\ pos < ID3v2TagLength /\ ~flushed)
       => /\ ~headerStripped
          /\ Emitted = << >>
          /\ buffer = Received

\* a first stripper passed the ID3v2 tag of its input on with the frame
C24_Witness ==
  /\ pc = "ended"
  /\ isFirst /\ ~isLast
  /\ CurrentFile = "id3.mp3"
  /\ Emitted = Content("id3.mp3")
  /\ HasBytesAt(Emitted, 0, ID3v2)

----------------------------------------------------------------------------
(* Properties of findCompleteFrames (ScanSpec)                             *)

RECURSIVE SumLengths(_)
SumLengths(found) ==
  IF found = << >> THEN 0 ELSE found[1].length + SumLengths(Tail(found))

\* the bytes in front of each frame found that belong to no frame found: from
\* `from` to the start of the first one, then between each and the next
RECURSIVE Gaps(_, _)
Gaps(found, from) ==
  IF found = << >> THEN 0
  ELSE (found[1].at - from)
         + Gaps(Tail(found), found[1].at + found[1].length)

\* the end of the last complete frame found, 0 when there is none
LastEnd(found) ==
  IF found = << >> THEN 0
  ELSE found[Len(found)].at + found[Len(found)].length

\* C25 as stated: `frames` is the concatenation of the complete frames found
\* and nothing else; its length is the sum of their lengths.
C25_FramesAreFramesOnly ==
  pc = "returned" => BLen(split.frames) = SumLengths(recognized)

\* C25 amended: `frames` is the prefix of the buffer that ends where the last
\* complete recognized frame ends (empty when there is none). Every frame found
\* lies in it, at its own offset, and so does every byte in front of the first
\* frame and between two frames: its length is the sum of the lengths of the
\* frames found plus the number of those bytes.
C25_FramesIsPrefixToLastFrameEnd ==
  pc = "returned"
  => /\ split.frames = findCompleteFrames(buffer).frames
     /\ split.frames = subarray(buffer, 0, LastEnd(recognized))
     /\ BLen(split.frames) = SumLengths(recognized) + Gaps(recognized, 0)
     /\ \A k \in 1 .. Len(recognized) :
          /\ recognized[k].at >= 0
          /\ recognized[k].length = getMp3FrameLength(buffer, recognized[k].at)
          /\ recognized[k].length > 0
          /\ recognized[k].at + recognized[k].length <= BLen(split.frames)

\* five bytes without a sync in front of a frame are part of `frames`
C25_Witness ==
  /\ pc = "returned"
  /\ buffer = Cat(Run(1, 5), Frame(20, 17))
  /\ recognized = << [at |-> 5, length |-> 96] >>
  /\ BLen(split.frames) = 101
  /\ split.remainder = << >>

\* the sync positions of a buffer, as findMp3FrameSync tests them
SyncPositions(buf) ==
  {p \in SyncCandidates(buf) : p < BLen(buf) - 1 /\ At(buf, p + 1) \div 32 = 7}

\* the sync positions that lie in none of the frames found
FreeSyncs ==
  {p \in SyncPositions(buffer) :
     \A k \in 1 .. Len(recognized) :
       ~(recognized[k].at <= p /\ p < recognized[k].at + recognized[k].length)}

\* a recognized header at p whose frame does not fit in the buffer
Incomplete(p) ==
  /\ getMp3FrameLength(buffer, p) > 0
  /\ p + getMp3FrameLength(buffer, p) > BLen(buffer)

\* where the scan stops: the first free sync with an incomplete frame, else the
\* end of the buffer
StopAt ==
  IF \E p \in FreeSyncs : Incomplete(p)
  THEN CHOOSE p \in FreeSyncs :
         Incomplete(p) /\ \A q \in FreeSyncs : Incomplete(q) => p <= q
  ELSE BLen(buffer)

Range(seq) == {seq[k] : k \in 1 .. Len(seq)}

\* C26 as stated: the scan stops at the first unrecognized frame, so no frame
\* found lies after a sync whose frame length was 0.
C26_StopsAtUnrecognized ==
  pc = "returned"
  => \A k \in 1 .. Len(recognized) :
       \A s \in Range(skipped) : recognized[k].at < s

\* C26 amended: the scan goes from the end of each frame found to the next sync
\* and stops only at the first incomplete frame or when no sync is left. A sync
\* whose header is unrecognized (frame length 0) does not stop it: the search
\* resumes one byte later, so frames after such a sync are found as well. Up to
\* the place where the scan stops, every sync outside the frames found was read
\* as unrecognized, and the frames found follow one another in increasing order
\* without overlap.
C26_StopsAtIncompleteOnly ==
  pc = "returned"
  => /\ \A k \in 1 .. Len(recognized) - 1 :
          recognized[k].at + recognized[k].length <= recognized[k + 1].at
     /\ \A k \in 1 .. Len(recognized) : recognized[k].at < StopAt
     /\ Range(skipped) = {p \in FreeSyncs : p < StopAt}
     /\ \A p \in Range(skipped) : getMp3FrameLength(buffer, p) = 0
     /\ split.remainder = subarray(buffer, LastEnd(recognized), BLen(buffer))

\* a frame found after a sync with bitrate index 15 was skipped
C26_Witness ==
  /\ pc = "returned"
  /\ buffer = Cat(Header(240), Frame(22, 18))
  /\ skipped = << 0 >>
  /\ recognized = << [at |-> 4, length |-> 97] >>
  /\ split.frames = buffer

----------------------------------------------------------------------------
(* Properties of getMp3FrameLength (CodecSpec)                             *)

\* the bitrates of indexes 1 .. 14 in kbit/s and the sample rates of indexes
\* 0 .. 2 in Hz
Kbps == <<32, 40, 48, 56, 64, 80, 96, 112, 128, 160, 192, 224, 256, 320>>
Hz == <<44100, 48000, 32000>>

----------------------------------------------------------------------------
(* Properties of the streaming branch, of flush and of the buffer          *)
(* (StripperSpec)                                                          *)

\* the buffer a transform call of a stripper in Streaming works on: the buffer
\* held, then the chunk written
Worked == Cat(buffer, subarray(Content(CurrentFile), pos, pos'))

\* C28: in Streaming, a transform call that finds no complete frame emits
\* exactly the first PROCESSING_CHUNK_SIZE bytes of the buffer and retains the
\* rest when the buffer is longer than 2 * PROCESSING_CHUNK_SIZE, and otherwise
\* emits nothing and retains the whole buffer; a call that finds at least one
\* complete frame emits the frames whatever the buffer size.
C28_BestEffortBeyondTwoChunks ==
  [][(pc = "stream" /\ headerStripped /\ pos' > pos /\ pc' = "stream")
     => Let(Worked, LAMBDA worked :
          Let(FrameScan(worked, 0, 0), LAMBDA end :
            IF end = 0
            THEN IF BLen(worked) > 2 * PROCESSING_CHUNK_SIZE
                 THEN /\ Pushed = subarray(worked, 0, PROCESSING_CHUNK_SIZE)
                      /\ BLen(Pushed) = PROCESSING_CHUNK_SIZE
                      /\ buffer' = subarray(worked, PROCESSING_CHUNK_SIZE,
                                            BLen(worked))
                 ELSE /\ emitted' = emitted
                      /\ buffer' = worked
            ELSE /\ Pushed = subarray(worked, 0, end)
                 /\ BLen(Pushed) > 0
                 /\ buffer' = subarray(worked, end, BLen(worked))))]_vars

\* 2 * PROCESSING_CHUNK_SIZE bytes without a frame were held and nothing was
\* emitted; one more byte made the first PROCESSING_CHUNK_SIZE bytes go out
C28_Witness ==
  /\ pc = "stream"
  /\ CurrentFile = "latency.bin"
  /\ isFirst
  /\ pos = 2 * PROCESSING_CHUNK_SIZE + 1
  /\ BLen(Emitted) = PROCESSING_CHUNK_SIZE
  /\ BLen(buffer) = PROCESSING_CHUNK_SIZE + 1

\* the buffer without its last 128 bytes when those begin 'TAG'
WithoutTrailingTag(buf) ==
  IF /\ BLen(buf) >= 128
     /\ At(buf, BLen(buf) - 128) = 84
     /\ At(buf, BLen(buf) - 127) = 65
     /\ At(buf, BLen(buf) - 126) = 71
  THEN subarray(buf, 0, BLen(buf) - 128)
  ELSE buf

\* C29: at flush of a stripper with isLast = FALSE, after the optional strip of
\* a 128-byte ID3v1 tag, one final frame split runs on the remaining buffer: if
\* it finds a complete frame, exactly the bytes up to the end of the last
\* complete frame are emitted; if it finds none, the whole remaining buffer is
\* emitted unchanged, an empty buffer giving an empty output.
C29_FlushEmitsFramesOrAll ==
  [][(pc = "stream" /\ ~flushed /\ flushed' /\ ~isLast)
     => Let(WithoutTrailingTag(buffer), LAMBDA remaining :
          Let(FrameScan(remaining, 0, 0), LAMBDA end :
            /\ end > 0 => Pushed = subarray(remaining, 0, end)
            /\ end = 0 => Pushed = remaining
            /\ remaining = << >> => emitted' = emitted))]_vars

\* the final split found the one frame held behind a truncated ID3v2 tag: the
\* bytes up to its end went out, the 5 bytes after it did not
C29_Witness ==
  /\ pc = "ended"
  /\ CurrentFile = "trunc.bin"
  /\ ~isFirst /\ ~isLast
  /\ BLen(buffer) = 111
  /\ Emitted = subarray(buffer, 0, 106)

\* C30: the buffer a stripper retains is bounded: after every transform call
\* that does not fail, in whatever state the stripper is, and after flush, it
\* holds at most MAX_BUFFER_SIZE bytes.
C30_BufferBounded ==
  pc \in {"stream", "ended"} => BLen(buffer) <= MAX_BUFFER_SIZE

\* a chunk of exactly MAX_BUFFER_SIZE bytes without a frame was accepted: its
\* first PROCESSING_CHUNK_SIZE bytes went out and the rest is held
C30_Witness ==
  /\ pc = "stream"
  /\ CurrentFile = "flood.bin"
  /\ pos = MAX_BUFFER_SIZE
  /\ BLen(buffer) = MAX_BUFFER_SIZE - PROCESSING_CHUNK_SIZE
  /\ BLen(Emitted) = PROCESSING_CHUNK_SIZE

----------------------------------------------------------------------------
(* findCompleteFrames: partition and termination (ScanSpec, ScanFairSpec)  *)

\* C32: findCompleteFrames partitions its input: `frames` followed by
\* `remainder` is byte for byte the buffer, frames being a prefix of it and
\* remainder the matching suffix, so no byte is lost, duplicated or reordered.
C32_SplitPartitionsBuffer ==
  pc = "returned"
  => /\ Cat(split.frames, split.remainder) = buffer
     /\ BLen(split.frames) + BLen(split.remainder) = BLen(buffer)
     /\ split.frames = subarray(buffer, 0, BLen(split.frames))
     /\ split.remainder = subarray(buffer, BLen(split.frames), BLen(buffer))
     /\ Let(findCompleteFrames(buffer), LAMBDA r :
          r.frames = split.frames /\ r.remainder = split.remainder)

\* an unrecognized sync was passed after the last complete frame: the scan
\* offset is beyond the end of `frames`, and the bytes between stay in
\* `remainder`
C32_Witness ==
  /\ pc = "returned"
  /\ buffer = Cat(Frame(20, 17), Header(240))
  /\ split.frames = Frame(20, 17)
  /\ split.remainder = Header(240)
  /\ offset > lastFrameEnd

\* C33: findCompleteFrames terminates on every finite buffer, buffers with
\* sync patterns whose headers are invalid included: every loop iteration that
\* does not leave the loop strictly increases the scan offset, which never
\* passes the end of the buffer, and the function eventually returns.
C33_ScanTerminates ==
  /\ [][(pc = "scan" /\ pc' = "scan")
        => offset' > offset /\ offset' <= BLen(buffer)]_vars
  /\ <>(pc = "returned")

\* three syncs with invalid headers were passed one after the other and the
\* function returned
C33_Witness ==
  /\ pc = "returned"
  /\ buffer = Cat(Cat(Header(240), Header(240)), Header(240))
  /\ skipped = << 0, 4, 8 >>
  /\ recognized = << >>

----------------------------------------------------------------------------
(* The callback of the handlers (StripperSpec)                             *)

----------------------------------------------------------------------------
(* Tag Strippers side by side (PairSpec, RerunSpec)                        *)

C35_OutputIndependentOfChunking ==
  \A j \in DOMAIN instances, k \in DOMAIN instances :
    (/\ instances[j].file = instances[k].file
     /\ instances[j].closure.isFirst = instances[k].closure.isFirst
     /\ instances[j].closure.isLast = instances[k].closure.isLast
     /\ instances[j].state = "ended"
     /\ instances[k].state = "ended")
    => instances[j].emitted = instances[k].emitted

\* the same file went through one stripper in one chunk and through the other
\* in four
C35_Witness ==
  /\ pc = "pair"
  /\ instances[1].file = "a.mp3" /\ instances[2].file = "a.mp3"
  /\ instances[1].closure.isFirst = instances[2].closure.isFirst
  /\ instances[1].closure.isLast = instances[2].closure.isLast
  /\ instances[1].state = "ended" /\ instances[2].state = "ended"
  /\ instances[1].chunks = 1 /\ instances[2].chunks = 4
  /\ instances[1].emitted = Content("a.mp3")

----------------------------------------------------------------------------
(* File handles and file numbers of the validator (ValidatorSpec)          *)

\* C36: the validator closes every file handle it opens: once
\* validateAudioCompatibility has returned, no handle it opened for an input is
\* still open, also when reading the prefix of an input failed.
C36_ValidatorClosesHandles ==
  pc = "validated" => handles = 0

\* a mismatch warning that prints file numbers
IsNumbered(w) == w.type \in {"sampleRate", "bitrate"}

\* the parameter of a record a numbered warning of this type prints
Printed(w, p) == IF w.type = "sampleRate" THEN p.sampleRate ELSE p.bitrate

\* C37: the number k printed as 'File k' in a mismatch warning is the 1-based
\* position in the input list of the file whose parameters differ, and
\* 'File 1' is the position of the reference file, also when earlier inputs
\* were recorded as invalid.
C37_FileNumbersArePositions ==
  Validated
  => \A j \in 1 .. Len(warnings) :
       IsNumbered(warnings[j])
       => /\ warnings[j].refNo = FirstValid
          /\ warnings[j].fileNo \in ValidIndexes
          /\ warnings[j].fileNo > FirstValid
          /\ Printed(warnings[j], fileParams[warnings[j].fileNo])
               = warnings[j].value

----------------------------------------------------------------------------
(* Settlement of the promise (LiveSpec)                                    *)

Settled == pc \in {"resolved", "rejected"}

\* C38: the promise concatenate returns settles exactly once: provided every
\* input stream eventually ends or errors and the sink eventually emits
\* 'finish' or 'error' once ended, the call eventually resolves or rejects;
\* once settled it stays as it settled, resolved without an error or rejected
\* with one, never both.
C38_SettlesExactlyOnce ==
  /\ <>Settled
  /\ [][Settled => pc' = pc /\ err' = err]_vars
  /\ [](pc = "resolved" => err = NoError)
  /\ [](pc = "rejected" => err # NoError)

\* all inputs went through, the sink was ended and emitted 'finish': resolved
C38_Witness ==
  /\ pc = "resolved"
  /\ N = 2
  /\ completed = {0, 1}
  /\ ends = 1
  /\ sink = "finished"
  /\ err = NoError

====
